---- MODULE Spec2Model ----
(***************************************************************************)
(* opinion_spread: the risk-gated order decision engine.                   *)
(*                                                                         *)
(*   risk/checks.py        RiskManager (reset / evaluate / commit)         *)
(*   executors/orders.py   OrderExecutor, SellOrderManager                 *)
(*   scheduler/runner.py   TradingScheduler.run                            *)
(*                                                                         *)
(* Amounts (Decimal in the source) are integers counting units of 10^-5,   *)
(* so that the 4-decimal quantisation step FOUR_DP is 10 units and values  *)
(* off the 4-decimal grid exist.  A price is a Decimal kept by its         *)
(* representation (coefficient, exponent): str() of a Decimal is injective *)
(* on that representation, so 0.4 and 0.40 are equal numbers with          *)
(* different strings.  Time is in seconds and advances 30 at a time.       *)
(*                                                                         *)
(* Three specifications share the state and the operators:                 *)
(*   SpecRM    the RiskManager called by a caller, one call at a time      *)
(*   SpecExec  the executors called by a caller, the exchange answering    *)
(*   Spec      TradingScheduler.run from its first refresh                 *)
(***************************************************************************)
EXTENDS Integers, Sequences, FiniteSets, TLC

VARIABLES
    config,             \* RiskConfig handed to RiskManager.__init__
    strategy,           \* StrategyConfig handed to SpreadAnalyzer, CandidateBuilder
    market_metrics,     \* select_top_tokens(): what analyze_market returned
    top_metrics,        \* what select_top_tokens returned
    now,                \* the wall clock read by datetime.utcnow()
    account_snapshot,   \* RiskManager._account_snapshot (None before reset)
    available_quote,    \* RiskManager._available_quote
    total_position,     \* RiskManager._total_position
    position_by_market, \* RiskManager._position_by_market (dict)
    last_order_times,   \* RiskManager._last_order_times (dict)
    pc,                 \* where the running code is
    account_state,      \* run(): account_state; manage(): account
    balances_response,  \* refresh(): balances_response (None when unbound)
    positions_response, \* refresh(): positions_response (None when unbound)
    fetch_log,          \* history: the fetches of the refresh call under way or returned
    cycle_index,        \* run(): cycle_index
    start_time,         \* run(): start_time
    candidates,         \* _process_buy_candidates(): candidates
    idx,                \* position of the loop over candidates / positions
    cand,               \* the candidate of the attempt under way
    decision,           \* the local `decision` (None when unbound)
    buy_counts,         \* _process_buy_candidates(): success, failures
    summary,            \* manage(): summary
    metrics,            \* MetricsRecorder.counters
    returned,           \* what the last submit_*_order call returned
    place_calls,        \* history: place_limit_order calls since the last reset
    placed,             \* history: orders placed since the last reset
    exchange_orders,    \* history: orders handed to the SDK since the last reset
    last_attempt,       \* history: the latest attempt since the last reset
    committed,          \* history: decisions committed since the last reset
    commit_log,         \* history: key -> its last commit (decision time, time)
    last_eval,          \* history: the latest evaluate since the last reset
    last_op,            \* history: the most recent RiskManager call
    fresh,              \* history: `decision` was evaluated on the current state
    stale,              \* history: a commit since the last reset was not fresh
    calls               \* history: number of RiskManager calls made

rmVars == <<account_snapshot, available_quote, total_position,
            position_by_market, last_order_times>>
runVars == <<pc, account_state, cycle_index, start_time, candidates, idx, cand,
             buy_counts, summary, metrics, returned>>
exchVars == <<place_calls, placed, exchange_orders, last_attempt>>
stratVars == <<strategy, market_metrics, top_metrics>>
refreshVars == <<balances_response, positions_response, fetch_log>>
histVars == <<committed, commit_log, last_eval, last_op, fresh, stale, calls>>
vars == <<config, strategy, market_metrics, top_metrics, now, account_snapshot, available_quote, total_position,
          position_by_market, last_order_times, pc, account_state,
          balances_response, positions_response, fetch_log,
          cycle_index, start_time, candidates, idx, cand, decision,
          buy_counts, summary,
          metrics, returned, place_calls, placed, exchange_orders,
          last_attempt, committed,
          commit_log, last_eval, last_op, fresh, stale, calls>>

-----------------------------------------------------------------------------
(* Bounds of the model.                                                    *)

\* The clock stops advancing at MaxTime seconds.
MaxTime == 60
\* The number of RiskManager calls an API-level caller makes.
MaxCalls == 5
\* The number of RiskManager calls the executor makes for its caller.
MaxExecCalls == 4
\* The number of cycles the scheduler runs.
MaxCycles == 2

-----------------------------------------------------------------------------
(* Values.                                                                 *)

\* Optional values: None, or Some(x) holding x = The(o)
None == <<>>
Some(x) == <<x>>
The(o) == o[1]
EmptyDict == [x \in {} |-> 0]

\* utils/decimal_utils.py: FOUR_DP = Decimal("0.0001"), in units of 10^-5.
FOUR_DP == 10
ONE == 10000 * FOUR_DP
Amt(n) == n * ONE

\* dict.get(key, default)
Get(d, k, default) == IF k \in DOMAIN d THEN d[k] ELSE default

\* dict with d[k] = v set
Put(d, k, v) == [x \in DOMAIN d \cup {k} |-> IF x = k THEN v ELSE d[x]]

\* dict.pop(key, None)
Pop(d, k) == [x \in DOMAIN d \ {k} |-> d[x]]

\* str.lower() on the strings that occur
Lower(s) ==
    CASE s = "BUY" -> "buy"
      [] s = "SELL" -> "sell"
      [] s = "HOLD" -> "hold"
      [] s = "T1" -> "t1"
      [] s = "T2" -> "t2"
      [] OTHER -> s

\* Decimal prices by representation: 0.4, 0.40, 0.5 and 0.6
P04 == [coef |-> 4, exp |-> -1]
P040 == [coef |-> 40, exp |-> -2]
P05 == [coef |-> 5, exp |-> -1]
P06 == [coef |-> 6, exp |-> -1]

\* str(Decimal): one string per representation
DecStr(p) == <<p.coef, p.exp>>

MarketIds == {1, 2}

\* models/core.py OrderCandidate
OrderCandidate(m, t, s, p, q, b) ==
    [market_id |-> m, token_id |-> t, side |-> s, price |-> p,
     quote_amount |-> q, base_amount |-> b]

\* models/core.py Position (the fields the core reads)
Position(m, t, sh) == [market_id |-> m, token_id |-> t, shares |-> sh]

\* models/core.py OpenOrder (the fields the core reads)
OpenOrder(m, t, s, r) ==
    [market_id |-> m, token_id |-> t, side |-> s, remaining |-> r]

\* models/core.py AccountState (the fields the core reads)
AccountState(avail, ps, os) ==
    [available_balances |-> avail, positions |-> ps, open_orders |-> os]

\* config/schema.py RiskConfig.  The loader hands the YAML scalars on as they
\* are, so a threshold can hold a text that is not a number: not_numbers
\* names the thresholds that do (their numeric field is then never read).
RiskConfig(mt, mm, mb, cd, st) ==
    [max_total_position |-> mt, max_position_per_market |-> mm,
     min_available_balance |-> mb, duplicate_order_cooldown |-> cd,
     sell_order_threshold |-> st, not_numbers |-> {}]

\* a RiskConfig in which the thresholds named hold a text that is not a number
Malformed(cfg, names) == [cfg EXCEPT !.not_numbers = names]

\* Decimal(str(threshold)) returns; it raises decimal.InvalidOperation for a
\* text that is not a number
Converts(name) == name \notin config.not_numbers

\* the configurations the engine is started with: the one of the tests'
\* fixture, and one without a reserve and with a shorter cooldown
RiskConfigs ==
    { RiskConfig(Amt(100), Amt(50), Amt(10), 60, Amt(5)),
      RiskConfig(Amt(100), Amt(50), 0, 30, 0) }

\* config/schema.py StrategyConfig; prices and sizes in units of 10^-5
StrategyConfig(n, ml, ms, lo, hi, q) ==
    [top_n_tokens |-> n, min_liquidity |-> ml, max_spread |-> ms,
     min_price |-> lo, max_price |-> hi, order_quote_amount |-> q]

\* the strategy of a run: the defaults of the schema, lines 25-30
RunStrategy == StrategyConfig(50, Amt(10), ONE \div 10, ONE \div 20,
                              (ONE \div 20) * 19, Amt(20))

\* the strategies the analyzer and the builder are constructed with: the
\* defaults, a selection of one token, an order of 1, and no order amount
StrategyConfigs ==
    { RunStrategy,
      [RunStrategy EXCEPT !.top_n_tokens = 1],
      [RunStrategy EXCEPT !.order_quote_amount = Amt(1)],
      [RunStrategy EXCEPT !.order_quote_amount = 0] }

\* a configuration whose YAML gives a text for min_available_balance
MalformedConfigs ==
    { Malformed(RiskConfig(Amt(100), Amt(50), 0, 60, Amt(5)),
                {"min_available_balance"}) }

\* the account snapshots an API-level caller resets with: no balance, no
\* position, one position, two markets, two positions in one market, and a
\* position of no shares
USDT(n) == [k \in {"USDT"} |-> n]
RMAccounts ==
    { AccountState(EmptyDict, <<>>, <<>>),
      AccountState(USDT(Amt(100)), <<>>, <<>>),
      AccountState(USDT(Amt(100)), <<Position(1, "t1", Amt(10))>>, <<>>),
      AccountState(USDT(Amt(100)),
                   <<Position(1, "t1", Amt(30)), Position(2, "t2", Amt(60))>>, <<>>),
      AccountState(EmptyDict,
                   <<Position(1, "t1", Amt(5)), Position(1, "t2", Amt(5))>>, <<>>),
      AccountState(USDT(Amt(100)), <<Position(2, "t2", 0)>>, <<>>) }

\* the candidates an API-level caller evaluates: buys of every size in one
\* market, the same buy under every variation of its key, sells, and a side
\* that is neither, and a buy whose base amount is negative (evaluate does
\* not look at the sign of a base amount)
RMCandidates ==
    { OrderCandidate(1, "t1", "buy", P04, q, b) :
        q \in {0, Amt(20), Amt(85), Amt(95)}, b \in {Amt(5), Amt(50)} }
    \cup { OrderCandidate(1, "t1", "buy", P04, Amt(90), Amt(5)),
           OrderCandidate(1, "T1", "buy", P04, Amt(20), Amt(50)),
           OrderCandidate(1, "t1", "BUY", P04, Amt(20), Amt(50)),
           OrderCandidate(1, "t1", "buy", P040, Amt(20), Amt(50)),
           OrderCandidate(2, "t1", "buy", P04, Amt(20), Amt(50)),
           OrderCandidate(1, "t1", "hold", P04, Amt(20), Amt(5)),
           OrderCandidate(2, "t2", "buy", P05, Amt(20), 0 - Amt(5)) }
    \cup { OrderCandidate(m, "t1", "sell", P04, Amt(20), b) :
        m \in MarketIds, b \in {Amt(5), Amt(50)} }
    \cup { OrderCandidate(1, "t1", "sell", P05, Amt(15), Amt(30)) }

-----------------------------------------------------------------------------
(* risk/checks.py RiskManager                                              *)

RECURSIVE SumShares(_)
SumShares(positions) ==
    IF positions = <<>> THEN 0
    ELSE Head(positions).shares + SumShares(Tail(positions))

RECURSIVE SumSharesOf(_, _)
SumSharesOf(positions, m) ==
    IF positions = <<>> THEN 0
    ELSE (IF Head(positions).market_id = m THEN Head(positions).shares ELSE 0)
         + SumSharesOf(Tail(positions), m)

\* a faulty variant of PositionsByMarket: a market's entry is the shares of
\* its last position
PositionsByMarket_Overwrites(positions) ==
    [m \in {positions[k].market_id : k \in DOMAIN positions} |->
        LET last == CHOOSE k \in DOMAIN positions :
                        /\ positions[k].market_id = m
                        /\ \A j \in DOMAIN positions :
                               positions[j].market_id = m => j <= k
        IN  positions[last].shares]

\* reset, lines 44-46: one entry per market that has a position
PositionsByMarket(positions) ==
    [m \in {positions[k].market_id : k \in DOMAIN positions} |->
        SumSharesOf(positions, m)]

\* a faulty variant of RMReset: the cooldown history is cleared as well
RMReset_ClearsTimes(account) ==
    /\ account_snapshot' = Some(account)
    /\ available_quote' = Get(account.available_balances, "USDT", 0)
    /\ total_position' = SumShares(account.positions)
    /\ position_by_market' = PositionsByMarket(account.positions)
    /\ last_order_times' = EmptyDict

\* a faulty variant of RMReset: the shares are added to the stored map
RMReset_AddsToMap(account) ==
    /\ account_snapshot' = Some(account)
    /\ available_quote' = Get(account.available_balances, "USDT", 0)
    /\ total_position' = SumShares(account.positions)
    /\ position_by_market' =
          [m \in DOMAIN position_by_market
                   \cup DOMAIN PositionsByMarket(account.positions) |->
              Get(position_by_market, m, 0)
              + Get(PositionsByMarket(account.positions), m, 0)]
    /\ UNCHANGED last_order_times

\* RiskManager.reset
RMReset(account) ==
    /\ account_snapshot' = Some(account)
    /\ available_quote' = Get(account.available_balances, "USDT", 0)
    /\ total_position' = SumShares(account.positions)
    /\ position_by_market' = PositionsByMarket(account.positions)
    /\ UNCHANGED last_order_times

\* a faulty variant of DuplicateKey: the key is not lowercased
DuplicateKey_AsGiven(candidate) ==
    <<candidate.market_id, candidate.token_id, candidate.side,
      DecStr(candidate.price)>>

\* evaluate, line 56
DuplicateKey(candidate) ==
    <<candidate.market_id, Lower(candidate.token_id), Lower(candidate.side),
      DecStr(candidate.price)>>

\* a faulty variant of InCooldown: the window is closed one instant late
InCooldown_Inclusive(duplicate_key) ==
    /\ duplicate_key \in DOMAIN last_order_times
    /\ now - last_order_times[duplicate_key] <= config.duplicate_order_cooldown

\* evaluate, lines 58-59
InCooldown(duplicate_key) ==
    /\ duplicate_key \in DOMAIN last_order_times
    /\ now - last_order_times[duplicate_key] < config.duplicate_order_cooldown

Raise(kind, why) == [outcome |-> kind, reason |-> why, decision |-> None]
RiskDecision(candidate, aq, tp, mp, key) ==
    [candidate |-> candidate, available_quote |-> aq, total_position |-> tp,
     market_position |-> mp, duplicate_key |-> key, timestamp |-> now]
Return(d) == [outcome |-> "ok", reason |-> "", decision |-> Some(d)]

\* a faulty variant of EvaluateBuy: the reserve must stay strictly above the minimum
EvaluateBuy_StrictReserve(candidate, key) ==
    LET quote_amount == candidate.quote_amount
        remaining == available_quote - quote_amount
        projected_total == total_position + candidate.base_amount
        projected_market ==
            Get(position_by_market, candidate.market_id, 0) + candidate.base_amount
    IN  IF quote_amount <= 0
          THEN Raise("RiskViolation", "Invalid quote amount for buy order")
        ELSE IF quote_amount > available_quote
          THEN Raise("RiskViolation", "Quote amount exceeds available balance")
        ELSE IF remaining <= config.min_available_balance
          THEN Raise("RiskViolation", "Insufficient available balance after order")
        ELSE IF projected_total > config.max_total_position
          THEN Raise("RiskViolation", "Total position limit exceeded")
        ELSE IF projected_market > config.max_position_per_market
          THEN Raise("RiskViolation", "Market position limit exceeded")
        ELSE Return(RiskDecision(candidate, remaining, projected_total,
                                 projected_market, key))

\* a faulty variant of EvaluateBuy: the market's cap is checked before the
\* total cap
EvaluateBuy_MarketCapFirst(candidate, key) ==
    LET quote_amount == candidate.quote_amount
        remaining == available_quote - quote_amount
        projected_total == total_position + candidate.base_amount
        projected_market ==
            Get(position_by_market, candidate.market_id, 0) + candidate.base_amount
    IN  IF quote_amount <= 0
          THEN Raise("RiskViolation", "Invalid quote amount for buy order")
        ELSE IF quote_amount > available_quote
          THEN Raise("RiskViolation", "Quote amount exceeds available balance")
        ELSE IF remaining < config.min_available_balance
          THEN Raise("RiskViolation", "Insufficient available balance after order")
        ELSE IF projected_market > config.max_position_per_market
          THEN Raise("RiskViolation", "Market position limit exceeded")
        ELSE IF projected_total > config.max_total_position
          THEN Raise("RiskViolation", "Total position limit exceeded")
        ELSE Return(RiskDecision(candidate, remaining, projected_total,
                                 projected_market, key))

\* a faulty variant of EvaluateBuy: the total position is not checked
EvaluateBuy_NoTotalLimit(candidate, key) ==
    LET quote_amount == candidate.quote_amount
        remaining == available_quote - quote_amount
        projected_total == total_position + candidate.base_amount
        projected_market ==
            Get(position_by_market, candidate.market_id, 0) + candidate.base_amount
    IN  IF quote_amount <= 0
          THEN Raise("RiskViolation", "Invalid quote amount for buy order")
        ELSE IF quote_amount > available_quote
          THEN Raise("RiskViolation", "Quote amount exceeds available balance")
        ELSE IF remaining < config.min_available_balance
          THEN Raise("RiskViolation", "Insufficient available balance after order")
        ELSE Return(RiskDecision(candidate, remaining, projected_total,
                                 projected_market, key))

\* evaluate, lines 71-90
EvaluateBuy(candidate, key) ==
    LET quote_amount == candidate.quote_amount
        remaining == available_quote - quote_amount
        projected_total == total_position + candidate.base_amount
        projected_market ==
            Get(position_by_market, candidate.market_id, 0) + candidate.base_amount
    IN  IF quote_amount <= 0
          THEN Raise("RiskViolation", "Invalid quote amount for buy order")
        ELSE IF quote_amount > available_quote
          THEN Raise("RiskViolation", "Quote amount exceeds available balance")
        ELSE IF remaining < config.min_available_balance
          THEN Raise("RiskViolation", "Insufficient available balance after order")
        ELSE IF projected_total > config.max_total_position
          THEN Raise("RiskViolation", "Total position limit exceeded")
        ELSE IF projected_market > config.max_position_per_market
          THEN Raise("RiskViolation", "Market position limit exceeded")
        ELSE Return(RiskDecision(candidate, remaining, projected_total,
                                 projected_market, key))

\* a faulty variant of EvaluateSell: the market's projection is not lowered
EvaluateSell_KeepsMarket(candidate, key) ==
    LET market_position == Get(position_by_market, candidate.market_id, 0)
    IN  IF candidate.base_amount > total_position
          THEN Raise("RiskViolation", "Sell amount exceeds total position")
        ELSE IF candidate.base_amount > market_position
          THEN Raise("RiskViolation", "Sell amount exceeds market position")
        ELSE Return(RiskDecision(candidate, available_quote,
                                 total_position - candidate.base_amount,
                                 market_position, key))

\* a faulty variant of EvaluateSell: only the total position bounds a sell
EvaluateSell_TotalOnly(candidate, key) ==
    LET market_position == Get(position_by_market, candidate.market_id, 0)
    IN  IF candidate.base_amount > total_position
          THEN Raise("RiskViolation", "Sell amount exceeds total position")
        ELSE Return(RiskDecision(candidate, available_quote,
                                 total_position - candidate.base_amount,
                                 market_position - candidate.base_amount, key))

\* evaluate, lines 92-99
EvaluateSell(candidate, key) ==
    LET market_position == Get(position_by_market, candidate.market_id, 0)
    IN  IF candidate.base_amount > total_position
          THEN Raise("RiskViolation", "Sell amount exceeds total position")
        ELSE IF candidate.base_amount > market_position
          THEN Raise("RiskViolation", "Sell amount exceeds market position")
        ELSE Return(RiskDecision(candidate, available_quote,
                                 total_position - candidate.base_amount,
                                 market_position - candidate.base_amount, key))

\* evaluate, lines 66-68: the three thresholds are converted
ThresholdsConvert ==
    /\ Converts("min_available_balance")
    /\ Converts("max_total_position")
    /\ Converts("max_position_per_market")

\* a faulty variant of Evaluate: the manager is not required to be initialised
Evaluate_Uninitialised(candidate) ==
    LET duplicate_key == DuplicateKey(candidate)
        side == Lower(candidate.side)
    IN  IF InCooldown(duplicate_key)
          THEN Raise("RiskViolation", "Duplicate order detected within cooldown window")
        ELSE IF ~ThresholdsConvert
          THEN Raise("InvalidOperation", "decimal.ConversionSyntax")
        ELSE IF side = "buy" THEN EvaluateBuy(candidate, duplicate_key)
        ELSE IF side = "sell" THEN EvaluateSell(candidate, duplicate_key)
        ELSE Raise("RiskViolation", "Unsupported order side")

\* a faulty variant of Evaluate: a side that is not buy is taken for a sell
Evaluate_OtherSideSells(candidate) ==
    LET duplicate_key == DuplicateKey(candidate)
        side == Lower(candidate.side)
    IN  IF account_snapshot = None
          THEN Raise("RuntimeError", "RiskManager.reset must be called before evaluation")
        ELSE IF InCooldown(duplicate_key)
          THEN Raise("RiskViolation", "Duplicate order detected within cooldown window")
        ELSE IF ~ThresholdsConvert
          THEN Raise("InvalidOperation", "decimal.ConversionSyntax")
        ELSE IF side = "buy" THEN EvaluateBuy(candidate, duplicate_key)
        ELSE EvaluateSell(candidate, duplicate_key)

\* RiskManager.evaluate: what it returns or raises
Evaluate(candidate) ==
    LET duplicate_key == DuplicateKey(candidate)
        side == Lower(candidate.side)
    IN  IF account_snapshot = None
          THEN Raise("RuntimeError", "RiskManager.reset must be called before evaluation")
        ELSE IF InCooldown(duplicate_key)
          THEN Raise("RiskViolation", "Duplicate order detected within cooldown window")
        ELSE IF ~ThresholdsConvert
          THEN Raise("InvalidOperation", "decimal.ConversionSyntax")
        ELSE IF side = "buy" THEN EvaluateBuy(candidate, duplicate_key)
        ELSE IF side = "sell" THEN EvaluateSell(candidate, duplicate_key)
        ELSE Raise("RiskViolation", "Unsupported order side")

\* a faulty variant of EvaluateWrites: the projection is applied in place
EvaluateWrites_InPlace(result) ==
    IF result.outcome = "ok"
      THEN /\ available_quote' = The(result.decision).available_quote
           /\ total_position' = The(result.decision).total_position
           /\ UNCHANGED <<account_snapshot, position_by_market, last_order_times>>
      ELSE UNCHANGED rmVars

\* RiskManager.evaluate: what it assigns of the manager (nothing)
EvaluateWrites(result) == UNCHANGED rmVars

\* a faulty variant of RMCommit: the projected total position is not applied
RMCommit_NoTotal(d) ==
    /\ available_quote' = d.available_quote
    /\ position_by_market' =
         IF d.market_position <= 0
           THEN Pop(position_by_market, d.candidate.market_id)
           ELSE Put(position_by_market, d.candidate.market_id, d.market_position)
    /\ last_order_times' = Put(last_order_times, d.duplicate_key, d.timestamp)
    /\ UNCHANGED <<account_snapshot, total_position>>

\* a faulty variant of RMCommit: a projection of zero or below is stored
RMCommit_KeepsEntry(d) ==
    /\ available_quote' = d.available_quote
    /\ total_position' = d.total_position
    /\ position_by_market' =
         Put(position_by_market, d.candidate.market_id, d.market_position)
    /\ last_order_times' = Put(last_order_times, d.duplicate_key, d.timestamp)
    /\ UNCHANGED account_snapshot

\* a faulty variant of RMCommit: the map of positions is rebuilt with the
\* committed market only
RMCommit_ReplacesMap(d) ==
    /\ available_quote' = d.available_quote
    /\ total_position' = d.total_position
    /\ position_by_market' =
         IF d.market_position <= 0
           THEN EmptyDict
           ELSE Put(EmptyDict, d.candidate.market_id, d.market_position)
    /\ last_order_times' = Put(last_order_times, d.duplicate_key, d.timestamp)
    /\ UNCHANGED account_snapshot

\* RiskManager.commit
RMCommit(d) ==
    /\ available_quote' = d.available_quote
    /\ total_position' = d.total_position
    /\ position_by_market' =
         IF d.market_position <= 0
           THEN Pop(position_by_market, d.candidate.market_id)
           ELSE Put(position_by_market, d.candidate.market_id, d.market_position)
    /\ last_order_times' = Put(last_order_times, d.duplicate_key, d.timestamp)
    /\ UNCHANGED account_snapshot

-----------------------------------------------------------------------------
(* History kept for the properties; no operation of the program reads it.  *)

\* (market, token, side, price) of a candidate, as given
Identity(candidate) ==
    <<candidate.market_id, candidate.token_id, candidate.side, candidate.price>>

\* the key of a candidate's cooldown: its market, token, side and price as
\* the lowercased string of evaluate, line 56, spells them
KeyOf(candidate) ==
    <<candidate.market_id, Lower(candidate.token_id), Lower(candidate.side),
      DecStr(candidate.price)>>

\* the record of an evaluate call made now
EvalRecord(candidate, result) ==
    LET key == KeyOf(candidate)
    IN  [candidate |-> candidate, at |-> now, outcome |-> result.outcome,
         reason |-> result.reason,
         prev_same |-> IF last_eval # None
                          /\ Identity(The(last_eval).candidate) = Identity(candidate)
                       THEN Some(The(last_eval).at) ELSE None,
         committed_ts |-> IF key \in DOMAIN commit_log
                          THEN Some(commit_log[key].timestamp) ELSE None,
         was_ready |-> account_snapshot # None]

NoteReset ==
    /\ committed' = <<>>
    /\ placed' = <<>>
    /\ place_calls' = <<>>
    /\ exchange_orders' = <<>>
    /\ last_attempt' = None
    /\ last_eval' = None
    /\ stale' = FALSE
    /\ fresh' = FALSE
    /\ last_op' = "reset"
    /\ calls' = calls + 1
    /\ UNCHANGED commit_log

NoteEvaluate(candidate, result) ==
    /\ last_eval' = Some(EvalRecord(candidate, result))
    /\ fresh' = IF result.outcome = "ok" THEN TRUE ELSE fresh
    /\ last_op' = "evaluate"
    /\ calls' = calls + 1
    /\ UNCHANGED <<committed, commit_log, stale>>

NoteCommit(d) ==
    /\ committed' = Append(committed, d)
    /\ commit_log' = Put(commit_log, d.duplicate_key,
                         [timestamp |-> d.timestamp, at |-> now,
                          candidate |-> d.candidate])
    /\ stale' = (stale \/ ~fresh)
    /\ fresh' = FALSE
    /\ last_op' = "commit"
    /\ calls' = calls + 1
    /\ UNCHANGED last_eval

-----------------------------------------------------------------------------
(* The RiskManager driven call by call, as the unit tests drive it: any    *)
(* sequence of reset, evaluate and commit, the caller holding the decision *)
(* its last successful evaluate returned.                                  *)

Constructed ==
    /\ config \in RiskConfigs \cup MalformedConfigs
    /\ strategy \in StrategyConfigs
    /\ market_metrics = <<>>
    /\ top_metrics = <<>>
    /\ now = 0
    /\ account_snapshot = None
    /\ available_quote = 0
    /\ total_position = 0
    /\ position_by_market = EmptyDict
    /\ last_order_times = EmptyDict
    /\ account_state = None
    /\ balances_response = None
    /\ positions_response = None
    /\ fetch_log = <<>>
    /\ cycle_index = 0
    /\ start_time = 0
    /\ candidates = <<>>
    /\ idx = 0
    /\ cand = None
    /\ decision = None
    /\ buy_counts = [considered |-> 0, success |-> 0, failures |-> 0]
    /\ summary = EmptyDict
    /\ metrics = EmptyDict
    /\ returned = None
    /\ place_calls = <<>>
    /\ exchange_orders = <<>>
    /\ placed = <<>>
    /\ last_attempt = None
    /\ committed = <<>>
    /\ commit_log = EmptyDict
    /\ last_eval = None
    /\ last_op = "init"
    /\ fresh = FALSE
    /\ stale = FALSE
    /\ calls = 0

InitRM ==
    /\ Constructed
    /\ config \in RiskConfigs
    /\ strategy = RunStrategy
    /\ pc = "caller"

\* time passes
Advance ==
    /\ now + 30 <= MaxTime
    /\ now' = now + 30

Tick ==
    /\ Advance
    /\ UNCHANGED <<config, refreshVars, stratVars, rmVars, runVars, decision, exchVars, histVars>>

CallReset(account) ==
    /\ pc = "caller"
    /\ calls < MaxCalls
    /\ RMReset(account)
    /\ NoteReset
    /\ UNCHANGED <<config, refreshVars, stratVars, now, runVars, decision>>

CallEvaluate(candidate) ==
    /\ pc = "caller"
    /\ calls < MaxCalls
    /\ LET result == Evaluate(candidate)
       IN  /\ EvaluateWrites(result)
           /\ decision' = IF result.outcome = "ok" THEN result.decision ELSE decision
           /\ NoteEvaluate(candidate, result)
    /\ UNCHANGED <<config, refreshVars, stratVars, now, runVars, exchVars>>

CallCommit ==
    /\ pc = "caller"
    /\ calls < MaxCalls
    /\ decision # None
    /\ RMCommit(The(decision))
    /\ NoteCommit(The(decision))
    /\ UNCHANGED <<config, refreshVars, stratVars, now, runVars, decision, exchVars>>

NextRM ==
    \/ Tick
    \/ \E account \in RMAccounts : CallReset(account)
    \/ \E candidate \in RMCandidates : CallEvaluate(candidate)
    \/ CallCommit

SpecRM == InitRM /\ [][NextRM]_vars

-----------------------------------------------------------------------------
(* utils/decimal_utils.py, strategy/candidates.py                          *)

RECURSIVE Pow10(_)
Pow10(n) == IF n <= 0 THEN 1 ELSE 10 * Pow10(n - 1)

\* a faulty variant of QuantizeDown: the value is rounded away from zero
QuantizeDown_Up(value) ==
    IF value >= 0 THEN ((value + FOUR_DP - 1) \div FOUR_DP) * FOUR_DP
    ELSE -(((FOUR_DP - 1 - value) \div FOUR_DP) * FOUR_DP)

\* a faulty variant of QuantizeDown: the step is 0.01
QuantizeDown_TwoDP(value) ==
    IF value >= 0 THEN (value \div (100 * FOUR_DP)) * (100 * FOUR_DP)
    ELSE -(((-value) \div (100 * FOUR_DP)) * (100 * FOUR_DP))

\* quantize_down: round toward zero to a multiple of the step
QuantizeDown(value) ==
    IF value >= 0 THEN (value \div FOUR_DP) * FOUR_DP
    ELSE -(((-value) \div FOUR_DP) * FOUR_DP)

\* format_decimal: the string of the quantised value, one per value
FormatDecimal(value) == QuantizeDown(value)

\* amount / price, rounded toward zero to a whole unit (what is left is
\* below the quantisation step); prices have an exponent <= 0
DivByPrice(amount, price) == (amount * Pow10(-price.exp)) \div price.coef

\* price * amount; exact when the product is a whole number of units, as it
\* is for the prices and sizes drawn here
MulByPrice(price, amount) == (price.coef * amount) \div Pow10(-price.exp)

\* models/core.py OrderbookLevel
OrderbookLevel(p, sz) == [price |-> p, size |-> sz]

\* the value of a price in units of 10^-5 (exponents from -5 to 0)
PriceUnits(p) == p.coef * Pow10(5 + p.exp)

\* _calculate_metrics, lines 42-44
SpreadOf(bid, ask) ==
    IF bid # None /\ ask # None
    THEN Some(PriceUnits(The(ask).price) - PriceUnits(The(bid).price))
    ELSE None

\* a faulty variant of LiquidityOf: the larger of the two sizes
LiquidityOf_Larger(bid, ask) ==
    IF bid = None /\ ask = None THEN 0
    ELSE IF bid = None THEN The(ask).size
    ELSE IF ask = None THEN The(bid).size
    ELSE IF The(bid).size >= The(ask).size THEN The(bid).size ELSE The(ask).size

\* _calculate_metrics, lines 46-52
LiquidityOf(bid, ask) ==
    IF bid = None /\ ask = None THEN 0
    ELSE IF bid = None THEN The(ask).size
    ELSE IF ask = None THEN The(bid).size
    ELSE IF The(bid).size <= The(ask).size THEN The(bid).size ELSE The(ask).size

\* models/core.py TokenMetrics, as _calculate_metrics fills it, lines 54-62
TokenMetrics(t, m, bid, ask) ==
    [token_id |-> t, market_id |-> m, best_bid |-> bid, best_ask |-> ask,
     spread |-> SpreadOf(bid, ask), liquidity_score |-> LiquidityOf(bid, ask)]

\* self.config.order_quote_amount, as Decimal(str(...)) reads it, line 32
order_quote_amount == strategy.order_quote_amount

\* build_buy_candidates, lines 29-30
OpenBuyExists(account) ==
    { account.open_orders[k].token_id :
        k \in { j \in DOMAIN account.open_orders :
                  Lower(account.open_orders[j].side) = "buy" } }
\* a faulty variant of PositionsTokens: the positions are not looked at
PositionsTokens_Ignored(account) == {}

PositionsTokens(account) ==
    { account.positions[k].token_id :
        k \in { j \in DOMAIN account.positions : account.positions[j].shares > 0 } }

\* build_buy_candidates, lines 36-57: the loop over the metrics
RECURSIVE BuildFrom(_, _)
BuildFrom(ms, account) ==
    IF ms = <<>> THEN <<>>
    ELSE LET metric == Head(ms)
             rest == BuildFrom(Tail(ms), account)
             price == The(metric.best_bid).price
             base_amount == QuantizeDown(DivByPrice(order_quote_amount, price))
         IN  IF metric.best_bid = None \/ metric.best_ask = None THEN rest
             ELSE IF metric.token_id \in OpenBuyExists(account) THEN rest
             ELSE IF metric.token_id \in PositionsTokens(account) THEN rest
             ELSE IF price.coef <= 0 THEN rest
             ELSE IF base_amount <= 0 THEN rest
             ELSE <<OrderCandidate(metric.market_id, metric.token_id, "buy",
                                   price, order_quote_amount, base_amount)>>
                  \o rest

\* CandidateBuilder.build_buy_candidates
BuildBuyCandidates(ms, account) ==
    IF order_quote_amount <= 0 THEN <<>> ELSE BuildFrom(ms, account)

-----------------------------------------------------------------------------
(* strategy/analyzer.py SpreadAnalyzer.select_top_tokens                   *)

\* safe_div; exact for the sums of two prices of at most 4 decimals
SafeDiv(numerator, denominator) ==
    IF denominator = 0 THEN 0 ELSE numerator \div denominator

\* a faulty variant of Selectable: the spread is not looked at
Selectable_AnySpread(metric) ==
    /\ metric.best_bid # None /\ metric.best_ask # None
    /\ ~(metric.liquidity_score < strategy.min_liquidity)
    /\ LET price_mid == SafeDiv(PriceUnits(The(metric.best_bid).price)
                                  + PriceUnits(The(metric.best_ask).price), 2)
       IN  strategy.min_price <= price_mid /\ price_mid <= strategy.max_price

\* select_top_tokens, lines 82-90: the metric is kept
Selectable(metric) ==
    /\ metric.best_bid # None /\ metric.best_ask # None
    /\ ~(metric.liquidity_score < strategy.min_liquidity)
    /\ ~(metric.spread = None \/ The(metric.spread) > strategy.max_spread)
    /\ LET price_mid == SafeDiv(PriceUnits(The(metric.best_bid).price)
                                  + PriceUnits(The(metric.best_ask).price), 2)
       IN  strategy.min_price <= price_mid /\ price_mid <= strategy.max_price

\* select_top_tokens, line 91: the sort key (m.spread or Decimal("1"),
\* -m.liquidity_score); a spread of 0 is falsy
SortKey(m) ==
    <<IF The(m.spread) = 0 THEN ONE ELSE The(m.spread), 0 - m.liquidity_score>>

\* the order of Python's tuples
KeyLess(a, b) == a[1] < b[1] \/ (a[1] = b[1] /\ a[2] < b[2])

\* list.sort is stable: m goes before the first element whose key is not
\* less than its own, having come before all of them
RECURSIVE Insert(_, _)
Insert(m, sorted) ==
    IF sorted = <<>> THEN <<m>>
    ELSE IF KeyLess(SortKey(Head(sorted)), SortKey(m))
         THEN <<Head(sorted)>> \o Insert(m, Tail(sorted))
         ELSE <<m>> \o sorted

RECURSIVE SortMetrics(_)
SortMetrics(ms) ==
    IF ms = <<>> THEN <<>> ELSE Insert(Head(ms), SortMetrics(Tail(ms)))

\* the slice s[:n]
Take(s, n) ==
    IF n >= 0 THEN SubSeq(s, 1, IF n <= Len(s) THEN n ELSE Len(s))
    ELSE SubSeq(s, 1, IF Len(s) + n >= 0 THEN Len(s) + n ELSE 0)

\* SpreadAnalyzer.select_top_tokens, on the metrics analyze_market returned
\* for the markets in turn
SelectTopTokens(ms) ==
    Take(SortMetrics(SelectSeq(ms, Selectable)), strategy.top_n_tokens)

-----------------------------------------------------------------------------
(* The inputs of a run: what the exchange answers.                         *)

\* the account snapshots a refresh can return
Accounts ==
    { AccountState(USDT(Amt(100)), <<>>, <<>>),
      AccountState(USDT(Amt(30)), <<Position(1, "t1", Amt(10) + 6)>>, <<>>),
      AccountState(USDT(Amt(100)),
                   <<Position(1, "t1", Amt(30)), Position(2, "t2", Amt(60))>>,
                   <<OpenOrder(2, "t2", "sell", Amt(57))>>),
      AccountState(EmptyDict,
                   <<Position(1, "t1", Amt(5)), Position(1, "t2", Amt(5))>>,
                   <<OpenOrder(2, "t3", "BUY", Amt(20))>>) }

\* the scored tokens select_top_tokens can return: each has both sides
Bid(p) == Some(OrderbookLevel(p, Amt(10)))
Ask == Some(OrderbookLevel(P05, Amt(10)))
TopMetrics ==
    { <<>>,
      <<TokenMetrics("t1", 1, Bid(P04), Ask)>>,
      <<TokenMetrics("t1", 1, Bid(P040), Ask), TokenMetrics("t3", 2, Bid(P05), Ask)>> }

\* the ask sides fetch_orderbook can return
AskSides ==
    { <<>>,
      <<[price |-> P05, size |-> Amt(10)], [price |-> P06, size |-> Amt(20)]>> }

\* a faulty variant of AskPrice: the price of the last level
AskPrice_Last(asks) == asks[Len(asks)].price

\* manage, lines 175-176: the price of the first ask level
AskPrice(asks) == asks[1].price

-----------------------------------------------------------------------------
(* executors/orders.py: the steps of one candidate attempt                 *)

\* a faulty variant of BuyOrder: the base amount is passed as well
BuyOrder_BothAmounts(candidate) ==
    [market_id |-> candidate.market_id, token_id |-> candidate.token_id,
     side |-> "buy", price |-> DecStr(candidate.price),
     amount_in_quote |-> Some(FormatDecimal(candidate.quote_amount)),
     amount_in_base |-> Some(FormatDecimal(candidate.base_amount))]

\* the arguments of place_limit_order for a buy, lines 49-55
BuyOrder(candidate) ==
    [market_id |-> candidate.market_id, token_id |-> candidate.token_id,
     side |-> "buy", price |-> DecStr(candidate.price),
     amount_in_quote |-> Some(FormatDecimal(candidate.quote_amount)),
     amount_in_base |-> None]

\* the arguments of place_limit_order for a sell, lines 103-109, 195-201
SellOrder(candidate) ==
    [market_id |-> candidate.market_id, token_id |-> candidate.token_id,
     side |-> "sell", price |-> DecStr(candidate.price),
     amount_in_quote |-> None,
     amount_in_base |-> Some(FormatDecimal(candidate.base_amount))]

AttemptRecord(candidate, result) ==
    [candidate |-> candidate, result |-> result,
     before |-> IF result = "evaluated" \/ last_attempt = None THEN rmVars
                ELSE The(last_attempt).before]

\* a faulty variant of OnViolation: the order is placed all the same
OnViolation_Places(candidate) ==
    /\ UNCHANGED <<decision, placed, exchange_orders>>
    /\ cand' = None
    /\ place_calls' = Append(place_calls, [candidate |-> candidate,
                                           order |-> BuyOrder(candidate)])
    /\ last_attempt' = Some(AttemptRecord(candidate, "violation"))

\* evaluate raised a RiskViolation: the attempt ends (lines 26-35, 182-192)
OnViolation(candidate) ==
    /\ UNCHANGED <<decision, place_calls, placed, exchange_orders>>
    /\ cand' = None
    /\ last_attempt' = Some(AttemptRecord(candidate, "violation"))

\* evaluate raised something else (the RuntimeError of an uninitialised
\* manager): no handler of the attempt catches it
OnError(candidate) ==
    /\ UNCHANGED <<decision, place_calls, placed, exchange_orders>>
    /\ cand' = None
    /\ last_attempt' = Some(AttemptRecord(candidate, "error"))

\* evaluate returned a decision: place_limit_order is called (lines 37-55,
\* 194-201)
OnDecision(candidate, d, order) ==
    /\ decision' = d
    /\ cand' = Some(candidate)
    /\ place_calls' = Append(place_calls, [candidate |-> candidate, order |-> order])
    /\ last_attempt' = Some(AttemptRecord(candidate, "evaluated"))
    /\ UNCHANGED <<placed, exchange_orders>>

\* the evaluate step of an attempt (lines 24-55, 180-201)
Attempt(candidate, order) ==
    LET result == Evaluate(candidate)
    IN  /\ EvaluateWrites(result)
        /\ NoteEvaluate(candidate, result)
        /\ IF result.outcome = "ok"
             THEN OnDecision(candidate, result.decision, order)
             ELSE IF result.outcome = "RiskViolation"
                    THEN OnViolation(candidate)
                    ELSE OnError(candidate)

-----------------------------------------------------------------------------
(* clients/opinion_client.py OpinionClient.place_limit_order               *)

\* bool() of an Optional[str] amount: None is falsy, and so would the empty
\* string be, which format_decimal never returns
Truthy(amount) == amount # None

\* place_limit_order, lines 96-97: the ValueError
RaisesValueError(order) ==
    Truthy(order.amount_in_quote) = Truthy(order.amount_in_base)

\* place_limit_order, lines 99-109: the order handed to the SDK
PlaceOrderDataInput(order) ==
    [marketId |-> order.market_id, tokenId |-> order.token_id,
     side |-> IF Lower(order.side) = "buy" THEN "BUY" ELSE "SELL",
     price |-> order.price,
     makerAmountInQuoteToken |-> order.amount_in_quote,
     makerAmountInBaseToken |-> order.amount_in_base]

\* place_limit_order up to the call of the SDK, line 110: nothing is handed
\* over when the ValueError is raised
HandToExchange(order) ==
    exchange_orders' = IF RaisesValueError(order) THEN exchange_orders
                       ELSE Append(exchange_orders, PlaceOrderDataInput(order))

\* the order of the place_limit_order call under way
LastOrder == place_calls[Len(place_calls)].order

\* a faulty variant of OnPlaceRaised: the decision is committed all the same
OnPlaceRaised_Commits ==
    /\ RMCommit(The(decision))
    /\ NoteCommit(The(decision))
    /\ HandToExchange(LastOrder)
    /\ UNCHANGED <<place_calls, placed>>
    /\ decision' = None
    /\ cand' = None
    /\ last_attempt' = Some(AttemptRecord(The(cand), "rpc_failed"))

\* place_limit_order raised: the attempt ends without a commit (lines 56-65,
\* 202-212)
OnPlaceRaised ==
    /\ HandToExchange(LastOrder)
    /\ UNCHANGED <<rmVars, histVars, place_calls, placed>>
    /\ decision' = None
    /\ cand' = None
    /\ last_attempt' = Some(AttemptRecord(The(cand), "rpc_failed"))

\* a faulty variant of OnPlaceReturned: the manager is reset from its snapshot
\* before the commit
OnPlaceReturned_Refreshes ==
    /\ RMReset(The(account_snapshot))
    /\ NoteReset
    /\ UNCHANGED <<decision, cand>>

\* place_limit_order returned (lines 49-55, 195-201)
OnPlaceReturned ==
    /\ ~RaisesValueError(LastOrder)
    /\ HandToExchange(LastOrder)
    /\ placed' = Append(placed, The(cand))
    /\ last_attempt' = Some(AttemptRecord(The(cand), "placed"))
    /\ UNCHANGED <<rmVars, histVars, decision, place_calls, cand>>

\* a faulty variant of OnCommit: the commit is left out
OnCommit_Skipped ==
    /\ UNCHANGED <<rmVars, histVars, place_calls, placed, exchange_orders>>
    /\ cand' = None
    /\ last_attempt' = Some(AttemptRecord(The(cand), "committed"))
    /\ decision' = None

\* risk_manager.commit(decision) after the placement (lines 67, 121, 214)
OnCommit ==
    /\ RMCommit(The(decision))
    /\ NoteCommit(The(decision))
    /\ cand' = None
    /\ last_attempt' = Some(AttemptRecord(The(cand), "committed"))
    /\ decision' = None
    /\ UNCHANGED <<place_calls, placed, exchange_orders>>

-----------------------------------------------------------------------------
(* monitoring/metrics.py MetricsRecorder                                   *)

\* increment
Increment(counters, name, value) == Put(counters, name, Get(counters, name, 0) + value)

\* merge_counts: only the counts that are not zero are added
MergeCounts(counters, counts) ==
    [k \in DOMAIN counters \cup {n \in DOMAIN counts : counts[n] # 0} |->
        Get(counters, k, 0) + Get(counts, k, 0)]

\* observe_cycle_duration, as run()'s finally clause calls it
ObserveCycleDuration(counters, duration) ==
    Put(Increment(counters, "cycle_duration_total", duration),
        "last_cycle_duration", duration)

-----------------------------------------------------------------------------
(* scheduler/runner.py TradingScheduler.run, executors/orders.py           *)
(* SellOrderManager.manage                                                 *)

\* the scheduler is run with the limits of the test fixture, or with a
\* malformed configuration
RunConfig == RiskConfig(Amt(100), Amt(50), Amt(10), 60, Amt(5))
InitRun ==
    /\ Constructed
    /\ config \in {RunConfig} \cup MalformedConfigs
    /\ strategy = RunStrategy
    /\ pc = "startup_refresh"

\* the list of positions manage() walks
Positions == The(account_state).positions

\* a faulty variant of Diff: the open sell orders are not subtracted
Diff_IgnoresOrders(account, position) == position.shares

\* manage, lines 148-157: the position's shares less the open sell orders of
\* its market
RECURSIVE TotalSellSize(_, _)
TotalSellSize(orders, m) ==
    IF orders = <<>> THEN 0
    ELSE (IF Lower(Head(orders).side) = "sell" /\ Head(orders).market_id = m
          THEN Head(orders).remaining ELSE 0)
         + TotalSellSize(Tail(orders), m)
Diff(account, position) ==
    position.shares - TotalSellSize(account.open_orders, position.market_id)

\* manage, lines 141-146
NewSummary ==
    [k \in {"sell_orders_considered", "sell_orders_blocked",
            "sell_orders_failed", "sell_orders_success"} |-> 0]

\* _process_buy_candidates, lines 94-99
BuyMetrics ==
    [k \in {"buy_markets_considered", "buy_orders_attempted",
            "buy_orders_success", "buy_orders_failed"} |->
        CASE k = "buy_markets_considered" -> buy_counts.considered
          [] k = "buy_orders_attempted" -> Len(candidates)
          [] k = "buy_orders_success" -> buy_counts.success
          [] k = "buy_orders_failed" -> buy_counts.failures]

\* a faulty variant of CycleFailed: the duration of a failed cycle is not
\* recorded
CycleFailed_NoDuration ==
    /\ metrics' = Increment(metrics, "cycle_errors", 1)
    /\ candidates' = <<>>
    /\ idx' = 0
    /\ cand' = None
    /\ buy_counts' = [considered |-> 0, success |-> 0, failures |-> 0]
    /\ summary' = EmptyDict
    /\ pc' = "post_refresh"

\* run, lines 134-140 and 142: the cycle's exception handler, the finally
\* clause, and the call of the refresh that follows
CycleFailed ==
    /\ metrics' = ObserveCycleDuration(Increment(metrics, "cycle_errors", 1),
                                       now - start_time)
    /\ candidates' = <<>>
    /\ idx' = 0
    /\ cand' = None
    /\ buy_counts' = [considered |-> 0, success |-> 0, failures |-> 0]
    /\ summary' = EmptyDict
    /\ pc' = "post_refresh"

\* run, lines 116-118
StartupRefreshReturns(account) ==
    /\ pc = "startup_refresh"
    /\ account_state' = Some(account)
    /\ RMReset(account)
    /\ NoteReset
    /\ pc' = "cycle_start"
    /\ UNCHANGED <<config, refreshVars, stratVars, now, cycle_index, start_time, candidates, idx, cand,
                   decision, buy_counts, summary, metrics, returned>>

\* run, line 116: the exception leaves run()
StartupRefreshRaises ==
    /\ pc = "startup_refresh"
    /\ pc' = "crashed"
    /\ UNCHANGED <<config, refreshVars, stratVars, now, rmVars, account_state, cycle_index, start_time,
                   candidates, idx, cand, decision, buy_counts, summary,
                   metrics, returned, exchVars, histVars>>

\* a faulty variant of CycleStart: the cycle begins without its reset
CycleStart_WithoutReset ==
    /\ pc = "cycle_start"
    /\ cycle_index < MaxCycles
    /\ cycle_index' = cycle_index + 1
    /\ start_time' = now
    /\ pc' = "fetch_markets"
    /\ UNCHANGED <<config, refreshVars, stratVars, now, rmVars, account_state, candidates, idx,
                   cand, decision, buy_counts, summary, metrics, returned,
                   exchVars, histVars>>

\* run, lines 121-125, and _process_buy_candidates up to its first fetch
CycleStart ==
    /\ pc = "cycle_start"
    /\ cycle_index < MaxCycles
    /\ cycle_index' = cycle_index + 1
    /\ start_time' = now
    /\ RMReset(The(account_state))
    /\ NoteReset
    /\ pc' = "fetch_markets"
    /\ UNCHANGED <<config, refreshVars, stratVars, now, account_state, candidates, idx, cand, decision,
                   buy_counts, summary, metrics, returned>>

\* _process_buy_candidates, lines 66-78: the markets are fetched and scored,
\* selected being what select_top_tokens returns
MarketsReturn(selected) ==
    /\ pc = "fetch_markets"
    /\ candidates' = BuildBuyCandidates(selected, The(account_state))
    /\ buy_counts' = [considered |-> Len(selected), success |-> 0, failures |-> 0]
    /\ idx' = 1
    /\ pc' = "buy_loop"
    /\ UNCHANGED <<config, refreshVars, stratVars, now, rmVars, account_state, cycle_index, start_time,
                   cand, decision, summary, metrics, returned, exchVars, histVars>>

\* _process_buy_candidates, lines 66-67: a fetch raises
MarketsRaise ==
    /\ pc = "fetch_markets"
    /\ CycleFailed
    /\ UNCHANGED <<config, refreshVars, stratVars, now, rmVars, account_state, cycle_index, start_time,
                   decision, returned, exchVars, histVars>>

\* _process_buy_candidates, lines 79-83, with submit_buy_order, lines 24-55;
\* submit_buy_order catches the RiskViolation of evaluate and nothing else
BuyEvaluate ==
    /\ pc = "buy_loop"
    /\ idx <= Len(candidates)
    /\ Attempt(candidates[idx], BuyOrder(candidates[idx]))
    /\ LET outcome == Evaluate(candidates[idx]).outcome
       IN  IF outcome = "ok"
             THEN /\ pc' = "buy_placing"
                  /\ UNCHANGED <<idx, buy_counts, candidates>>
           ELSE IF outcome = "RiskViolation"
             THEN /\ pc' = "buy_loop"
                  /\ idx' = idx + 1
                  /\ buy_counts' = [buy_counts EXCEPT !.failures = @ + 1]
                  /\ UNCHANGED candidates
           ELSE /\ pc' = "buy_raised"
                /\ idx' = 0
                /\ buy_counts' = [considered |-> 0, success |-> 0, failures |-> 0]
                /\ candidates' = <<>>
    /\ UNCHANGED <<config, refreshVars, stratVars, now, account_state, cycle_index, start_time,
                   summary, metrics, returned>>

\* run, lines 134-140: the exception of the buy pass reaches the cycle's
\* handler
BuyPassRaises ==
    /\ pc = "buy_raised"
    /\ CycleFailed
    /\ UNCHANGED <<config, refreshVars, stratVars, now, rmVars, account_state, cycle_index, start_time,
                   decision, returned, exchVars, histVars>>

\* a faulty variant of BuyPlaceRaises: the candidate is tried again
BuyPlaceRaises_Retries ==
    /\ pc = "buy_placing"
    /\ OnPlaceRaised
    /\ pc' = "buy_loop"
    /\ UNCHANGED <<config, refreshVars, stratVars, now, account_state,
                   cycle_index, start_time, candidates, idx, buy_counts,
                   summary, metrics, returned>>

\* submit_buy_order, lines 56-65
BuyPlaceRaises ==
    /\ pc = "buy_placing"
    /\ OnPlaceRaised
    /\ pc' = "buy_loop"
    /\ idx' = idx + 1
    /\ buy_counts' = [buy_counts EXCEPT !.failures = @ + 1]
    /\ UNCHANGED <<config, refreshVars, stratVars, now, account_state, cycle_index, start_time,
                   candidates, summary, metrics, returned>>

\* submit_buy_order, lines 49-55
BuyPlaceReturns ==
    /\ pc = "buy_placing"
    /\ OnPlaceReturned
    /\ pc' = "buy_committing"
    /\ UNCHANGED <<config, refreshVars, stratVars, now, account_state, cycle_index, start_time,
                   candidates, idx, buy_counts, summary, metrics, returned>>

\* submit_buy_order, lines 67-76
BuyCommit ==
    /\ pc = "buy_committing"
    /\ OnCommit
    /\ pc' = "buy_loop"
    /\ idx' = idx + 1
    /\ buy_counts' = [buy_counts EXCEPT !.success = @ + 1]
    /\ UNCHANGED <<config, refreshVars, stratVars, now, account_state, cycle_index, start_time,
                   candidates, summary, metrics, returned>>

\* _process_buy_candidates, lines 85-99, and run, lines 129-131
BuyPassDone ==
    /\ pc = "buy_loop"
    /\ idx > Len(candidates)
    /\ metrics' = MergeCounts(metrics, BuyMetrics)
    /\ candidates' = <<>>
    /\ idx' = 0
    /\ buy_counts' = [considered |-> 0, success |-> 0, failures |-> 0]
    /\ pc' = "mid_refresh"
    /\ UNCHANGED <<config, refreshVars, stratVars, now, rmVars, account_state, cycle_index, start_time,
                   cand, decision, summary, returned, exchVars, histVars>>

\* run, lines 131-132, _manage_sell_orders, line 102, manage, lines 141-152
MidRefreshReturns(account) ==
    /\ pc = "mid_refresh"
    /\ account_state' = Some(account)
    /\ RMReset(account)
    /\ NoteReset
    /\ summary' = NewSummary
    /\ idx' = 1
    /\ pc' = "sell_loop"
    /\ UNCHANGED <<config, refreshVars, stratVars, now, cycle_index, start_time, candidates, cand,
                   decision, buy_counts, metrics, returned>>

\* run, line 131: the refresh raises
MidRefreshRaises ==
    /\ pc = "mid_refresh"
    /\ CycleFailed
    /\ UNCHANGED <<config, refreshVars, stratVars, now, rmVars, account_state, cycle_index, start_time,
                   decision, returned, exchVars, histVars>>

\* a faulty variant of SellSkip: a position passed over is counted as
\* considered
SellSkip_Counted ==
    /\ pc = "sell_loop"
    /\ idx <= Len(Positions)
    /\ Diff(The(account_state), Positions[idx]) <= config.sell_order_threshold
    /\ idx' = idx + 1
    /\ summary' = [summary EXCEPT !["sell_orders_considered"] = @ + 1]
    /\ UNCHANGED <<config, refreshVars, stratVars, now, rmVars, pc,
                   account_state, cycle_index, start_time, candidates, cand,
                   decision, buy_counts, metrics, returned, exchVars,
                   histVars>>

\* manage, lines 154-159: the position is hedged well enough
SellSkip ==
    /\ pc = "sell_loop"
    /\ idx <= Len(Positions)
    /\ Diff(The(account_state), Positions[idx]) <= config.sell_order_threshold
    /\ idx' = idx + 1
    /\ UNCHANGED <<config, refreshVars, stratVars, now, rmVars, pc, account_state, cycle_index,
                   start_time, candidates, cand, decision, buy_counts, summary,
                   metrics, returned, exchVars, histVars>>

\* manage, lines 154-170: a sell is due, the orderbook is fetched
SellConsider ==
    /\ pc = "sell_loop"
    /\ idx <= Len(Positions)
    /\ LET position == Positions[idx]
           diff == Diff(The(account_state), position)
       IN  /\ diff > config.sell_order_threshold
           /\ cand' = Some(OrderCandidate(position.market_id, position.token_id,
                                          "sell", [coef |-> 0, exp |-> 0], 0, diff))
    /\ summary' = [summary EXCEPT !["sell_orders_considered"] = @ + 1]
    /\ pc' = "sell_fetching"
    /\ UNCHANGED <<config, refreshVars, stratVars, now, rmVars, account_state, cycle_index, start_time,
                   candidates, idx, decision, buy_counts, metrics, returned,
                   exchVars, histVars>>

\* a faulty variant of SellNoAsks: the position is passed without a count
SellNoAsks_Uncounted(asks) ==
    /\ pc = "sell_fetching"
    /\ asks = <<>>
    /\ idx' = idx + 1
    /\ cand' = None
    /\ pc' = "sell_loop"
    /\ UNCHANGED <<config, refreshVars, stratVars, now, rmVars, account_state, cycle_index, start_time,
                   candidates, decision, buy_counts, summary, metrics, returned,
                   exchVars, histVars>>

\* manage, lines 171-174: no asks
SellNoAsks(asks) ==
    /\ pc = "sell_fetching"
    /\ asks = <<>>
    /\ summary' = [summary EXCEPT !["sell_orders_failed"] = @ + 1]
    /\ idx' = idx + 1
    /\ cand' = None
    /\ pc' = "sell_loop"
    /\ UNCHANGED <<config, refreshVars, stratVars, now, rmVars, account_state, cycle_index, start_time,
                   candidates, decision, buy_counts, metrics, returned,
                   exchVars, histVars>>

\* manage, lines 175-201: the candidate is priced at the first ask and
\* evaluated
SellEvaluate(asks) ==
    /\ pc = "sell_fetching"
    /\ asks # <<>>
    /\ LET price == AskPrice(asks)
           diff == The(cand).base_amount
           candidate == [The(cand) EXCEPT !.price = price,
                                          !.quote_amount = MulByPrice(price, diff),
                                          !.base_amount = diff]
           outcome == Evaluate(candidate).outcome
       IN  /\ Attempt(candidate, SellOrder(candidate))
           /\ IF outcome = "ok"
                THEN /\ pc' = "sell_placing"
                     /\ UNCHANGED <<idx, summary>>
                ELSE IF outcome = "RiskViolation"
                THEN /\ pc' = "sell_loop"
                     /\ idx' = idx + 1
                     /\ summary' = [summary EXCEPT !["sell_orders_blocked"] = @ + 1]
                ELSE /\ pc' = "manage_raised"
                     /\ idx' = 0
                     /\ summary' = EmptyDict
    /\ UNCHANGED <<config, refreshVars, stratVars, now, account_state, cycle_index, start_time,
                   candidates, buy_counts, metrics, returned>>

\* manage, line 170: fetch_orderbook raises, and nothing in manage catches it
SellOrderbookRaises ==
    /\ pc = "sell_fetching"
    /\ cand' = None
    /\ idx' = 0
    /\ summary' = EmptyDict
    /\ pc' = "manage_raised"
    /\ UNCHANGED <<config, refreshVars, stratVars, now, rmVars, account_state, cycle_index, start_time,
                   candidates, decision, buy_counts, metrics, returned,
                   exchVars, histVars>>

\* run, lines 134-140: the exception of manage reaches the cycle's handler
SellPassRaises ==
    /\ pc = "manage_raised"
    /\ CycleFailed
    /\ UNCHANGED <<config, refreshVars, stratVars, now, rmVars, account_state, cycle_index, start_time,
                   decision, returned, exchVars, histVars>>

\* manage, lines 202-212
SellPlaceRaises ==
    /\ pc = "sell_placing"
    /\ OnPlaceRaised
    /\ summary' = [summary EXCEPT !["sell_orders_failed"] = @ + 1]
    /\ idx' = idx + 1
    /\ pc' = "sell_loop"
    /\ UNCHANGED <<config, refreshVars, stratVars, now, account_state, cycle_index, start_time,
                   candidates, buy_counts, metrics, returned>>

\* manage, lines 195-201
SellPlaceReturns ==
    /\ pc = "sell_placing"
    /\ OnPlaceReturned
    /\ pc' = "sell_committing"
    /\ UNCHANGED <<config, refreshVars, stratVars, now, account_state, cycle_index, start_time,
                   candidates, idx, buy_counts, summary, metrics, returned>>

\* manage, lines 214-224
SellCommit ==
    /\ pc = "sell_committing"
    /\ OnCommit
    /\ summary' = [summary EXCEPT !["sell_orders_success"] = @ + 1]
    /\ idx' = idx + 1
    /\ pc' = "sell_loop"
    /\ UNCHANGED <<config, refreshVars, stratVars, now, account_state, cycle_index, start_time,
                   candidates, buy_counts, metrics, returned>>

\* manage, line 226: the positions are done, the summary is returned
ManageReturns ==
    /\ pc = "sell_loop"
    /\ idx > Len(Positions)
    /\ idx' = 0
    /\ pc' = "manage_returned"
    /\ UNCHANGED <<config, refreshVars, stratVars, now, rmVars, account_state, cycle_index, start_time,
                   candidates, cand, decision, buy_counts, summary, metrics,
                   returned, exchVars, histVars>>

\* _manage_sell_orders, lines 103-110, and run, lines 137-140
SellPassDone ==
    /\ pc = "manage_returned"
    /\ metrics' = ObserveCycleDuration(MergeCounts(metrics, summary),
                                       now - start_time)
    /\ summary' = EmptyDict
    /\ idx' = 0
    /\ pc' = "post_refresh"
    /\ UNCHANGED <<config, refreshVars, stratVars, now, rmVars, account_state, cycle_index, start_time,
                   candidates, cand, decision, buy_counts, returned, exchVars,
                   histVars>>

\* run, lines 142-143
PostRefreshReturns(account) ==
    /\ pc = "post_refresh"
    /\ account_state' = Some(account)
    /\ pc' = "sleeping"
    /\ UNCHANGED <<config, refreshVars, stratVars, now, rmVars, cycle_index, start_time, candidates,
                   idx, cand, decision, buy_counts, summary, metrics, returned,
                   exchVars, histVars>>

\* run, line 142: this refresh is outside the try; the exception leaves run()
PostRefreshRaises ==
    /\ pc = "post_refresh"
    /\ pc' = "crashed"
    /\ UNCHANGED <<config, refreshVars, stratVars, now, rmVars, account_state, cycle_index, start_time,
                   candidates, idx, cand, decision, buy_counts, summary,
                   metrics, returned, exchVars, histVars>>

\* run, line 143 and back to line 120
Wake ==
    /\ pc = "sleeping"
    /\ pc' = "cycle_start"
    /\ UNCHANGED <<config, refreshVars, stratVars, now, rmVars, account_state, cycle_index, start_time,
                   candidates, idx, cand, decision, buy_counts, summary,
                   metrics, returned, exchVars, histVars>>

\* where the run waits for the exchange or sleeps
Waiting ==
    pc \in {"startup_refresh", "fetch_markets", "buy_placing", "mid_refresh",
            "sell_fetching", "sell_placing", "post_refresh", "sleeping"}

\* time passes while the run waits
WaitTick ==
    /\ Waiting
    /\ Advance
    /\ UNCHANGED <<config, refreshVars, stratVars, rmVars, runVars, decision, exchVars, histVars>>

Next ==
    \/ WaitTick
    \/ \E account \in Accounts : StartupRefreshReturns(account)
    \/ StartupRefreshRaises
    \/ CycleStart
    \/ \E selected \in TopMetrics : MarketsReturn(selected)
    \/ MarketsRaise
    \/ BuyEvaluate
    \/ BuyPassRaises
    \/ BuyPlaceRaises
    \/ BuyPlaceReturns
    \/ BuyCommit
    \/ BuyPassDone
    \/ \E account \in Accounts : MidRefreshReturns(account)
    \/ MidRefreshRaises
    \/ SellSkip
    \/ SellConsider
    \/ \E asks \in AskSides : SellNoAsks(asks)
    \/ \E asks \in AskSides : SellEvaluate(asks)
    \/ SellOrderbookRaises
    \/ SellPassRaises
    \/ SellPlaceRaises
    \/ SellPlaceReturns
    \/ SellCommit
    \/ ManageReturns
    \/ SellPassDone
    \/ \E account \in Accounts : PostRefreshReturns(account)
    \/ PostRefreshRaises
    \/ Wake

Spec == InitRun /\ [][Next]_vars

-----------------------------------------------------------------------------
(* executors/orders.py driven call by call: a caller resets the            *)
(* RiskManager and calls submit_buy_order, submit_sell_order and            *)
(* SellOrderManager.manage, one call at a time, the exchange answering or   *)
(* failing each request.                                                    *)

InitExec ==
    /\ Constructed
    /\ config \in RiskConfigs
    /\ strategy = RunStrategy
    /\ pc = "exec_caller"

\* the candidates the caller submits
ExecCandidates ==
    { OrderCandidate(1, "t1", "buy", P04, Amt(20), Amt(50)),
      OrderCandidate(1, "T1", "BUY", P04, Amt(20), Amt(50)),
      OrderCandidate(1, "t1", "buy", P04, Amt(95), Amt(5)),
      OrderCandidate(2, "t2", "sell", P05, 0, Amt(5)),
      OrderCandidate(2, "t2", "sell", P05, 0, Amt(50)),
      OrderCandidate(1, "t1", "sell", P05, 0, 0),
      OrderCandidate(1, "t1", "hold", P04, Amt(20), Amt(5)) }

\* what a submit call hands back once evaluate has run, lines 24-35, 79-90
AfterEvaluate(candidate, placing) ==
    LET outcome == Evaluate(candidate).outcome
    IN  /\ pc' = IF outcome = "ok" THEN placing ELSE "exec_caller"
        /\ returned' = IF outcome = "RiskViolation" THEN Some(FALSE) ELSE None

ExecReset(account) ==
    /\ pc = "exec_caller"
    /\ calls < MaxExecCalls
    /\ RMReset(account)
    /\ NoteReset
    /\ UNCHANGED <<config, refreshVars, stratVars, now, runVars, decision>>

\* submit_buy_order, lines 24-55
SubmitBuy(candidate) ==
    /\ pc = "exec_caller"
    /\ calls < MaxExecCalls
    /\ Attempt(candidate, BuyOrder(candidate))
    /\ AfterEvaluate(candidate, "exec_buy_placing")
    /\ UNCHANGED <<config, refreshVars, stratVars, now, account_state, cycle_index, start_time,
                   candidates, idx, buy_counts, summary, metrics>>

\* submit_buy_order, lines 56-65
SubmitBuyPlaceRaises ==
    /\ pc = "exec_buy_placing"
    /\ OnPlaceRaised
    /\ pc' = "exec_caller"
    /\ returned' = Some(FALSE)
    /\ UNCHANGED <<config, refreshVars, stratVars, now, account_state, cycle_index, start_time,
                   candidates, idx, buy_counts, summary, metrics>>

\* submit_buy_order, lines 49-55
SubmitBuyPlaceReturns ==
    /\ pc = "exec_buy_placing"
    /\ OnPlaceReturned
    /\ pc' = "exec_buy_committing"
    /\ UNCHANGED <<config, refreshVars, stratVars, now, account_state, cycle_index, start_time,
                   candidates, idx, buy_counts, summary, metrics, returned>>

\* submit_buy_order, lines 67-76
SubmitBuyCommit ==
    /\ pc = "exec_buy_committing"
    /\ OnCommit
    /\ pc' = "exec_caller"
    /\ returned' = Some(TRUE)
    /\ UNCHANGED <<config, refreshVars, stratVars, now, account_state, cycle_index, start_time,
                   candidates, idx, buy_counts, summary, metrics>>

\* submit_sell_order, lines 79-109
SubmitSell(candidate) ==
    /\ pc = "exec_caller"
    /\ calls < MaxExecCalls
    /\ Attempt(candidate, SellOrder(candidate))
    /\ AfterEvaluate(candidate, "exec_sell_placing")
    /\ UNCHANGED <<config, refreshVars, stratVars, now, account_state, cycle_index, start_time,
                   candidates, idx, buy_counts, summary, metrics>>

\* submit_sell_order, lines 110-119
SubmitSellPlaceRaises ==
    /\ pc = "exec_sell_placing"
    /\ OnPlaceRaised
    /\ pc' = "exec_caller"
    /\ returned' = Some(FALSE)
    /\ UNCHANGED <<config, refreshVars, stratVars, now, account_state, cycle_index, start_time,
                   candidates, idx, buy_counts, summary, metrics>>

\* submit_sell_order, lines 103-109
SubmitSellPlaceReturns ==
    /\ pc = "exec_sell_placing"
    /\ OnPlaceReturned
    /\ pc' = "exec_sell_committing"
    /\ UNCHANGED <<config, refreshVars, stratVars, now, account_state, cycle_index, start_time,
                   candidates, idx, buy_counts, summary, metrics, returned>>

\* submit_sell_order, lines 121-130
SubmitSellCommit ==
    /\ pc = "exec_sell_committing"
    /\ OnCommit
    /\ pc' = "exec_caller"
    /\ returned' = Some(TRUE)
    /\ UNCHANGED <<config, refreshVars, stratVars, now, account_state, cycle_index, start_time,
                   candidates, idx, buy_counts, summary, metrics>>

\* manage(account), lines 140-152
ExecManage(account) ==
    /\ pc = "exec_caller"
    /\ calls < MaxExecCalls
    /\ account_state' = Some(account)
    /\ summary' = NewSummary
    /\ idx' = 1
    /\ pc' = "sell_loop"
    /\ UNCHANGED <<config, refreshVars, stratVars, now, rmVars, cycle_index, start_time, candidates,
                   cand, decision, buy_counts, metrics, returned, exchVars,
                   histVars>>

\* manage has returned its summary to the caller, which drops it
ExecManageReturned ==
    /\ pc = "manage_returned"
    /\ pc' = "exec_caller"
    /\ account_state' = None
    /\ summary' = EmptyDict
    /\ UNCHANGED <<config, refreshVars, stratVars, now, rmVars, cycle_index, start_time, candidates,
                   idx, cand, decision, buy_counts, metrics, returned,
                   exchVars, histVars>>

\* the exception of manage has reached the caller
ExecManageRaised ==
    /\ pc = "manage_raised"
    /\ pc' = "exec_caller"
    /\ account_state' = None
    /\ UNCHANGED <<config, refreshVars, stratVars, now, rmVars, cycle_index, start_time, candidates,
                   idx, cand, decision, buy_counts, summary, metrics, returned,
                   exchVars, histVars>>

\* time passes between the calls and while a request is in flight
ExecTick ==
    /\ pc \in {"exec_caller", "exec_buy_placing", "exec_sell_placing",
               "sell_fetching", "sell_placing"}
    /\ Advance
    /\ UNCHANGED <<config, refreshVars, stratVars, rmVars, runVars, decision, exchVars, histVars>>

NextExec ==
    \/ ExecTick
    \/ \E account \in Accounts : ExecReset(account)
    \/ \E candidate \in ExecCandidates : SubmitBuy(candidate)
    \/ SubmitBuyPlaceRaises
    \/ SubmitBuyPlaceReturns
    \/ SubmitBuyCommit
    \/ \E candidate \in ExecCandidates : SubmitSell(candidate)
    \/ SubmitSellPlaceRaises
    \/ SubmitSellPlaceReturns
    \/ SubmitSellCommit
    \/ \E account \in Accounts : ExecManage(account)
    \/ SellSkip
    \/ SellConsider
    \/ \E asks \in AskSides : SellNoAsks(asks)
    \/ \E asks \in AskSides : SellEvaluate(asks)
    \/ SellOrderbookRaises
    \/ SellPlaceRaises
    \/ SellPlaceReturns
    \/ SellCommit
    \/ ManageReturns
    \/ ExecManageReturned
    \/ ExecManageRaised

SpecExec == InitExec /\ [][NextExec]_vars

-----------------------------------------------------------------------------
(* strategy/analyzer.py and strategy/candidates.py driven call by call, as *)
(* the unit tests drive them: the markets are analysed, select_top_tokens  *)
(* returns its selection, and build_buy_candidates is called on the        *)
(* selection, or on metrics the caller hands it as they are.               *)

\* the longest list of metrics analysed
MaxMetrics == 3

\* prices: 0.42, 0.3, 0.95, 0.97, 0, 1000 and 10001
P042 == [coef |-> 42, exp |-> -2]
P03 == [coef |-> 3, exp |-> -1]
P095 == [coef |-> 95, exp |-> -2]
P097 == [coef |-> 97, exp |-> -2]
P0 == [coef |-> 0, exp |-> 0]
P1000 == [coef |-> 1000, exp |-> 0]
P10001 == [coef |-> 10001, exp |-> 0]
Level(p, n) == Some(OrderbookLevel(p, Amt(n)))

\* the metrics analyze_market can return: spreads of 0.02, 0.2, 0.1 and 0,
\* equal spreads with different liquidity, too little liquidity, one side or
\* both missing, mid-prices below and above the range, bids of 0, 1000 and
\* 10001
MetricPool ==
    { TokenMetrics("t1", 1, Level(P040, 10), Level(P042, 10)),
      TokenMetrics("t2", 1, Level(P03, 10), Level(P05, 10)),
      TokenMetrics("t3", 2, Level(P040, 20), Level(P042, 30)),
      TokenMetrics("t4", 2, Level(P04, 10), Level(P05, 10)),
      TokenMetrics("t5", 2, Level(P05, 10), Level(P05, 10)),
      TokenMetrics("t1", 1, Level(P04, 5), Level(P042, 10)),
      TokenMetrics("t5", 1, Level(P04, 10), None),
      TokenMetrics("t5", 1, None, Level(P05, 10)),
      TokenMetrics("t4", 1, None, None),
      TokenMetrics("t5", 2, Level(P095, 10), Level(P097, 10)),
      TokenMetrics("t4", 2, Level(P0, 10), Level(P04, 10)),
      TokenMetrics("t5", 1, Level(P1000, 10), Level(P1000, 10)),
      TokenMetrics("t4", 1, Level(P10001, 10), Level(P10001, 10)) }

\* the lists of metrics analysed, in the order of the markets
MetricLists ==
    UNION { [1..n -> MetricPool] : n \in 0..MaxMetrics }

\* the accounts build_buy_candidates is given: those of a run, and one with
\* an open buy order for t1 and a position of no shares in t4
BuildAccounts ==
    Accounts \cup
    { AccountState(USDT(Amt(100)), <<Position(2, "t4", 0)>>,
                   <<OpenOrder(1, "t1", "buy", Amt(20))>>) }

InitBuild == Constructed /\ config = RunConfig /\ pc = "analyzer_caller"

\* select_top_tokens, lines 78-81: the markets are analysed
AnalyzeMarkets(ms) ==
    /\ pc = "analyzer_caller"
    /\ market_metrics' = ms
    /\ pc' = "selecting"
    /\ UNCHANGED <<config, refreshVars, strategy, top_metrics, now, rmVars, account_state,
                   cycle_index, start_time, candidates, idx, cand, decision,
                   buy_counts, summary, metrics, returned, exchVars, histVars>>

\* select_top_tokens, lines 82-92: the selection is returned
SelectReturns ==
    /\ pc = "selecting"
    /\ top_metrics' = SelectTopTokens(market_metrics)
    /\ pc' = "selected"
    /\ UNCHANGED <<config, refreshVars, strategy, market_metrics, now, rmVars, account_state,
                   cycle_index, start_time, candidates, idx, cand, decision,
                   buy_counts, summary, metrics, returned, exchVars, histVars>>

\* build_buy_candidates(top_metrics, account), as runner.py line 68 calls it
BuildSelected(account) ==
    /\ pc = "selected"
    /\ account_state' = Some(account)
    /\ candidates' = BuildBuyCandidates(top_metrics, account)
    /\ pc' = "built"
    /\ UNCHANGED <<config, refreshVars, stratVars, now, rmVars, cycle_index, start_time,
                   idx, cand, decision, buy_counts, summary, metrics, returned,
                   exchVars, histVars>>

\* build_buy_candidates(metrics, account) on metrics that went through no
\* selection, as tests/test_candidate_builder.py calls it
BuildGiven(account) ==
    /\ pc = "selecting"
    /\ account_state' = Some(account)
    /\ candidates' = BuildBuyCandidates(market_metrics, account)
    /\ pc' = "built_given"
    /\ UNCHANGED <<config, refreshVars, stratVars, now, rmVars, cycle_index, start_time,
                   idx, cand, decision, buy_counts, summary, metrics, returned,
                   exchVars, histVars>>

NextBuild ==
    \/ \E ms \in MetricLists : AnalyzeMarkets(ms)
    \/ SelectReturns
    \/ \E account \in BuildAccounts : BuildSelected(account)
    \/ \E account \in BuildAccounts : BuildGiven(account)

SpecBuild == InitBuild /\ [][NextBuild]_vars

-----------------------------------------------------------------------------
(* clients/opinion_client.py place_limit_order driven call by call: with    *)
(* the arguments submit_buy_order builds for a candidate, with those        *)
(* submit_sell_order and manage build, with both amounts and with neither;  *)
(* the exchange accepts the order or answers with an errno.                 *)

\* the number of place_limit_order calls the caller makes
MaxClientCalls == 3

\* the calls of place_limit_order for a candidate
OrdersOf(candidate) ==
    { BuyOrder(candidate),
      SellOrder(candidate),
      [BuyOrder(candidate) EXCEPT
          !.amount_in_base = Some(FormatDecimal(candidate.base_amount))],
      [SellOrder(candidate) EXCEPT !.amount_in_base = None] }
ClientCalls ==
    UNION { { [candidate |-> c, order |-> o] : o \in OrdersOf(c) } :
              c \in ExecCandidates }

InitClient ==
    /\ Constructed /\ config = RunConfig /\ strategy = RunStrategy
    /\ pc = "client_caller"

\* place_limit_order, lines 96-97: both amounts or neither
PlaceRaisesValueError(call) ==
    /\ pc = "client_caller"
    /\ Len(place_calls) < MaxClientCalls
    /\ RaisesValueError(call.order)
    /\ place_calls' = Append(place_calls, call)
    /\ HandToExchange(call.order)
    /\ returned' = Some("ValueError")
    /\ UNCHANGED <<config, refreshVars, stratVars, now, rmVars, pc, account_state,
                   cycle_index, start_time, candidates, idx, cand, decision,
                   buy_counts, summary, metrics, placed, last_attempt, histVars>>

\* place_limit_order, lines 110-112: the exchange answers with an errno
PlaceOrderFails(call) ==
    /\ pc = "client_caller"
    /\ Len(place_calls) < MaxClientCalls
    /\ ~RaisesValueError(call.order)
    /\ place_calls' = Append(place_calls, call)
    /\ HandToExchange(call.order)
    /\ returned' = Some("RuntimeError")
    /\ UNCHANGED <<config, refreshVars, stratVars, now, rmVars, pc, account_state,
                   cycle_index, start_time, candidates, idx, cand, decision,
                   buy_counts, summary, metrics, placed, last_attempt, histVars>>

\* place_limit_order, lines 110-114: the order is placed
PlaceReturns(call) ==
    /\ pc = "client_caller"
    /\ Len(place_calls) < MaxClientCalls
    /\ ~RaisesValueError(call.order)
    /\ place_calls' = Append(place_calls, call)
    /\ HandToExchange(call.order)
    /\ placed' = Append(placed, call.candidate)
    /\ returned' = Some("OrderPlacementResult")
    /\ UNCHANGED <<config, refreshVars, stratVars, now, rmVars, pc, account_state,
                   cycle_index, start_time, candidates, idx, cand, decision,
                   buy_counts, summary, metrics, last_attempt, histVars>>

NextClient ==
    \/ \E call \in ClientCalls : PlaceRaisesValueError(call)
    \/ \E call \in ClientCalls : PlaceOrderFails(call)
    \/ \E call \in ClientCalls : PlaceReturns(call)

SpecClient == InitClient /\ [][NextClient]_vars

-----------------------------------------------------------------------------
(* Properties of the RiskManager.                                          *)

Ready == account_snapshot # None
EvaluateStep == calls' = calls + 1 /\ last_op' = "evaluate"
ResetStep == calls' = calls + 1 /\ last_op' = "reset"
CommitStep == calls' = calls + 1 /\ last_op' = "commit"
DuplicateReason == "Duplicate order detected within cooldown window"
RejectedAsDuplicate(result) ==
    result.outcome = "RiskViolation" /\ result.reason = DuplicateReason

\* C1: an evaluate call, whether it returns a decision or raises, leaves the
\* available quote, the total position, the per-market map and the cooldown
\* history as they were.
C1_EvaluateKeepsState == [][EvaluateStep => UNCHANGED rmVars]_vars

\* C1 witness: an evaluate has returned a decision whose projection differs
\* from the stored aggregates.
C1_Witness ==
    /\ last_op = "evaluate"
    /\ The(last_eval).outcome = "ok"
    /\ The(decision).candidate = The(last_eval).candidate
    /\ The(decision).available_quote # available_quote
    /\ The(decision).total_position # total_position

\* the delta of one committed decision applied to the aggregates
ApplyDelta(st, d) ==
    LET c == d.candidate
        side == Lower(c.side)
        m == c.market_id
    IN  [available_quote |->
            IF side = "buy" THEN st.available_quote - c.quote_amount
            ELSE st.available_quote,
         total_position |->
            IF side = "buy" THEN st.total_position + c.base_amount
            ELSE st.total_position - c.base_amount,
         by_market |->
            [x \in MarketIds |->
                IF x # m THEN st.by_market[x]
                ELSE IF side = "buy" THEN st.by_market[x] + c.base_amount
                ELSE st.by_market[x] - c.base_amount]]

RECURSIVE FoldDeltas(_, _)
FoldDeltas(st, ds) ==
    IF ds = <<>> THEN st ELSE FoldDeltas(ApplyDelta(st, Head(ds)), Tail(ds))

\* the aggregates of a snapshot
OfSnapshot(a) ==
    [available_quote |-> Get(a.available_balances, "USDT", 0),
     total_position |-> SumShares(a.positions),
     by_market |-> [x \in MarketIds |-> SumSharesOf(a.positions, x)]]

\* the stored aggregates, an absent market reading as 0
Stored ==
    [available_quote |-> available_quote,
     total_position |-> total_position,
     by_market |-> [x \in MarketIds |-> Get(position_by_market, x, 0)]]

\* the last-order timestamps are those of the committed decisions, the most
\* recently committed one of each key
TimesAreTheFold ==
    last_order_times = [k \in DOMAIN commit_log |-> commit_log[k].timestamp]

\* the aggregates are the snapshot with the committed deltas applied in order
AggregatesAreTheFold ==
    Stored = FoldDeltas(OfSnapshot(The(account_snapshot)), committed)

\* no decision committed since the last reset has a negative base amount
NoNegativeAmount ==
    \A i \in 1..Len(committed) : committed[i].candidate.base_amount >= 0

\* C2 as stated: after any sequence of calls the aggregates are the last
\* reset's snapshot with the deltas of the decisions committed since applied,
\* and the timestamps are the fold of the committed decisions.
C2_AnySequence == Ready => (AggregatesAreTheFold /\ TimesAreTheFold)

\* C2 amended: the timestamps are always the fold of the committed decisions;
\* the aggregates are the fold when every decision committed since the last
\* reset was returned by an evaluate with no reset and no commit between that
\* evaluate and its commit, and none has a negative base amount.
C2_FoldOfFreshCommits ==
    Ready => /\ TimesAreTheFold
             /\ (~stale /\ NoNegativeAmount) => AggregatesAreTheFold

\* C2 witness: a buy and then a sell have been committed since the last
\* reset, each right after its evaluate, and the aggregates have moved.
C2_Witness ==
    /\ Ready /\ ~stale /\ NoNegativeAmount
    /\ Len(committed) = 2
    /\ Lower(committed[1].candidate.side) = "buy"
    /\ Lower(committed[2].candidate.side) = "sell"
    /\ Stored # OfSnapshot(The(account_snapshot))

\* the cooldown of a key, by the history of commits: the decision most
\* recently committed for it was evaluated less than the cooldown before t
WindowOpenAt(key, t) ==
    /\ key \in DOMAIN commit_log
    /\ t - commit_log[key].timestamp < config.duplicate_order_cooldown

\* C7 as stated: of two evaluate calls on identical (market, token, side,
\* price), the second made within the cooldown of the first, the second fails
\* as a duplicate; made after the cooldown, it is not rejected as a duplicate.
C7_SecondEvaluateRejected ==
    (last_eval # None /\ The(last_eval).was_ready
     /\ The(last_eval).prev_same # None) =>
        LET e == The(last_eval)
            within == e.at - The(e.prev_same) < config.duplicate_order_cooldown
        IN  within <=> RejectedAsDuplicate(e)

\* C7 amended: an evaluate on a ready manager fails as a duplicate exactly
\* when a decision with its key has been committed and the evaluate is made
\* less than the cooldown after the timestamp of the most recently committed
\* one; evaluates alone, with no commit, never reject one another.
C7_RejectedIffCommittedInWindow ==
    (last_eval # None /\ The(last_eval).was_ready) =>
        LET e == The(last_eval)
        IN  RejectedAsDuplicate(e) <=>
                /\ e.committed_ts # None
                /\ e.at - The(e.committed_ts) < config.duplicate_order_cooldown

\* C7 witness: a candidate is evaluated and committed, and the identical
\* candidate evaluated later, within the cooldown, is rejected as a duplicate.
C7_Witness ==
    /\ last_op = "evaluate"
    /\ The(last_eval).committed_ts # None
    /\ The(last_eval).at > The(The(last_eval).committed_ts)
    /\ KeyOf(The(last_eval).candidate) \in DOMAIN commit_log
    /\ Identity(commit_log[KeyOf(The(last_eval).candidate)].candidate)
           = Identity(The(last_eval).candidate)
    /\ RejectedAsDuplicate(The(last_eval))

\* C8 as stated: after a commit of key K, an evaluate of K is rejected as a
\* duplicate while less than the cooldown has passed since that commit, and
\* is not once the cooldown has passed since the commit.
C8_WindowFromCommit ==
    Ready =>
        \A c \in RMCandidates :
            KeyOf(c) \in DOMAIN commit_log =>
                ((now - commit_log[KeyOf(c)].at < config.duplicate_order_cooldown)
                    <=> RejectedAsDuplicate(Evaluate(c)))

\* C8 amended: the window is measured from the timestamp of the decision most
\* recently committed for K, which is the time of its evaluate and not of its
\* commit: an evaluate of K less than the cooldown after that timestamp is
\* rejected as a duplicate, and one made once the cooldown has passed since
\* the commit is not.
C8_WindowFromDecisionTimestamp ==
    Ready =>
        \A c \in RMCandidates :
            KeyOf(c) \in DOMAIN commit_log =>
                /\ (now - commit_log[KeyOf(c)].timestamp
                        < config.duplicate_order_cooldown)
                      <=> RejectedAsDuplicate(Evaluate(c))
                /\ (now - commit_log[KeyOf(c)].at >= config.duplicate_order_cooldown)
                      => ~RejectedAsDuplicate(Evaluate(c))

\* C8 witness: a decision was committed some time after its evaluate, and the
\* cooldown counted from its timestamp has passed while the cooldown counted
\* from the commit has not.
C8_Witness ==
    /\ Ready
    /\ \E c \in RMCandidates :
          /\ KeyOf(c) \in DOMAIN commit_log
          /\ commit_log[KeyOf(c)].at > commit_log[KeyOf(c)].timestamp
          /\ now - commit_log[KeyOf(c)].timestamp >= config.duplicate_order_cooldown
          /\ now - commit_log[KeyOf(c)].at < config.duplicate_order_cooldown
          /\ ~RejectedAsDuplicate(Evaluate(c))

\* the conditions under which a buy passes the limits
BuyWithinLimits(c) ==
    /\ c.quote_amount > 0
    /\ c.quote_amount <= available_quote
    /\ available_quote - c.quote_amount >= config.min_available_balance
    /\ total_position + c.base_amount <= config.max_total_position
    /\ Get(position_by_market, c.market_id, 0) + c.base_amount
           <= config.max_position_per_market

\* C10: a buy candidate that is not in cooldown is accepted exactly when its
\* quote amount is positive, within the available quote and leaves the
\* minimum, and the total and the market's position stay within their caps;
\* with 100 available and a minimum of 10, a buy of 95 is rejected.
C10_BuyAcceptedIffWithinLimits ==
    Ready =>
        \A c \in RMCandidates :
            (Lower(c.side) = "buy" /\ ~WindowOpenAt(KeyOf(c), now)) =>
                /\ (Evaluate(c).outcome = "ok") <=> BuyWithinLimits(c)
                /\ (available_quote = Amt(100)
                    /\ config.min_available_balance = Amt(10)
                    /\ c.quote_amount = Amt(95))
                        => Evaluate(c).outcome = "RiskViolation"

\* C10 witness: with 100 available and a minimum of 10, a buy of 85 has been
\* accepted, and a buy of 95 is rejected for the reserve.
C10_Witness ==
    /\ last_op = "evaluate"
    /\ available_quote = Amt(100)
    /\ config.min_available_balance = Amt(10)
    /\ The(last_eval).candidate.quote_amount = Amt(85)
    /\ The(last_eval).outcome = "ok"
    /\ \E c \in RMCandidates :
          /\ c.quote_amount = Amt(95)
          /\ Evaluate(c).reason = "Insufficient available balance after order"

\* the accounting example: from a snapshot with no position, a buy of 50 and
\* then a sell of 30 in the same market have been committed
BuyFiftySellThirty(cs, snapshot) ==
    /\ config.max_total_position = Amt(100)
    /\ SumShares(snapshot.positions) = 0
    /\ Len(cs) = 2
    /\ Lower(cs[1].candidate.side) = "buy"
    /\ cs[1].candidate.base_amount = Amt(50)
    /\ Lower(cs[2].candidate.side) = "sell"
    /\ cs[2].candidate.base_amount = Amt(30)
    /\ cs[2].candidate.market_id = cs[1].candidate.market_id

\* C11 as stated: every commit of a buy of base amount b raises the total and
\* the market's stored position by b and lowers the available quote by the
\* quote amount, and every commit of a sell of s lowers the two positions by s.
C11_EveryCommitMovesByItsAmount ==
    [][CommitStep => Stored' = ApplyDelta(Stored, The(decision))]_vars

\* C11 amended: a commit made on the decision of the latest evaluate, with no
\* reset and no commit since that evaluate, of a candidate whose base amount
\* is not negative, moves the aggregates by the candidate's amounts; from no
\* position, a buy of 50 and then a sell of 30 so committed leave a total of
\* 20 and a stored position of 20 in that market.
C11_FreshCommitMovesByItsAmount ==
    [][(CommitStep /\ fresh /\ The(decision).candidate.base_amount >= 0) =>
        /\ Stored' = ApplyDelta(Stored, The(decision))
        /\ (~stale' /\ BuyFiftySellThirty(committed', The(account_snapshot))) =>
              /\ committed[1].total_position = Amt(50)
              /\ total_position' = Amt(20)
              /\ position_by_market'[The(decision).candidate.market_id] = Amt(20)
    ]_vars

\* C11 witness: from no position a buy of 50 and then a sell of 30 in the same
\* market were each evaluated and committed, and 20 is the total and the
\* market's stored position.
C11_Witness ==
    /\ Ready /\ ~stale /\ last_op = "commit"
    /\ BuyFiftySellThirty(committed, The(account_snapshot))
    /\ total_position = Amt(20)
    /\ Get(position_by_market, committed[2].candidate.market_id, 0) = Amt(20)
    /\ available_quote = Get(The(account_snapshot).available_balances, "USDT", 0)
                             - committed[1].candidate.quote_amount

\* the conditions under which a sell passes the limits
SellWithinLimits(c) ==
    /\ c.base_amount <= total_position
    /\ c.base_amount <= Get(position_by_market, c.market_id, 0)

\* C12: a sell candidate that is not in cooldown is accepted exactly when its
\* base amount exceeds neither the total position nor the position of its
\* market; one larger than its market's position is rejected even when the
\* total position covers it.
C12_SellAcceptedIffWithinPositions ==
    Ready =>
        \A c \in RMCandidates :
            (Lower(c.side) = "sell" /\ ~WindowOpenAt(KeyOf(c), now)) =>
                /\ (Evaluate(c).outcome = "ok") <=> SellWithinLimits(c)
                /\ (c.base_amount > Get(position_by_market, c.market_id, 0))
                      => Evaluate(c).outcome = "RiskViolation"

\* C12 witness: a sell that the total position covers has been rejected for
\* the position of its market, and another sell is within both bounds.
C12_Witness ==
    /\ last_op = "evaluate"
    /\ Lower(The(last_eval).candidate.side) = "sell"
    /\ The(last_eval).candidate.base_amount <= total_position
    /\ The(last_eval).candidate.base_amount
           > Get(position_by_market, The(last_eval).candidate.market_id, 0)
    /\ The(last_eval).reason = "Sell amount exceeds market position"
    /\ \E c \in RMCandidates :
          Lower(c.side) = "sell" /\ Evaluate(c).outcome = "ok"

\* C15: the manager is ready exactly from its first reset on; an evaluate
\* before that raises the RuntimeError of _ensure_initialized, whatever the
\* candidate, and leaves the manager and the caller's decision as they were;
\* an evaluate after it never raises that error.
C15_EvaluateBeforeResetFails ==
    /\ [](IF Ready
           THEN \A c \in RMCandidates : Evaluate(c).outcome # "RuntimeError"
           ELSE \A c \in RMCandidates :
                   /\ Evaluate(c).outcome = "RuntimeError"
                   /\ Evaluate(c).outcome # "RiskViolation"
                   /\ Evaluate(c).decision = None)
    /\ [][/\ Ready' <=> (Ready \/ ResetStep)
          /\ (EvaluateStep /\ ~Ready) =>
                /\ The(last_eval').outcome = "RuntimeError"
                /\ UNCHANGED <<rmVars, decision>>
          /\ (EvaluateStep /\ Ready) => The(last_eval').outcome # "RuntimeError"
       ]_vars

\* C15 witness: two evaluates have been made on a manager never reset, and
\* the second has raised the RuntimeError as well.
C15_Witness ==
    /\ ~Ready
    /\ calls = 2
    /\ last_op = "evaluate"
    /\ The(last_eval).outcome = "RuntimeError"
    /\ ~The(last_eval).was_ready
    /\ decision = None

-----------------------------------------------------------------------------
(* Properties of the executors and of the scheduler's run.                 *)

\* the step on which a placement in flight raises
PlaceRaisedStep ==
    /\ last_attempt # None /\ The(last_attempt).result = "evaluated"
    /\ last_attempt' # None /\ The(last_attempt').result = "rpc_failed"

\* C3: when the placement raises in submit_buy_order, submit_sell_order or
\* manage, nothing is committed: the aggregates and the cooldown history are
\* those of before the attempt, the attempt is reported as a failure (False,
\* or one more sell_orders_failed), and the same candidate evaluated again at
\* once is not rejected as a duplicate.
C3_FailedPlacementLeavesNoTrace ==
    [][PlaceRaisedStep =>
        /\ rmVars' = The(last_attempt).before
        /\ committed' = committed
        /\ commit_log' = commit_log
        /\ pc \in {"exec_buy_placing", "exec_sell_placing"} =>
              (returned' = Some(FALSE) /\ pc' = "exec_caller")
        /\ pc = "sell_placing" =>
              /\ summary'["sell_orders_failed"] = summary["sell_orders_failed"] + 1
              /\ summary'["sell_orders_success"] = summary["sell_orders_success"]
        /\ ~RejectedAsDuplicate(Evaluate(The(last_attempt).candidate))'
    ]_vars

\* C3 witness: after one order was placed and committed, the placement of a
\* sell by submit_sell_order has raised and False was returned.
C3_Witness ==
    /\ pc = "exec_caller"
    /\ last_attempt # None
    /\ The(last_attempt).result = "rpc_failed"
    /\ Lower(The(last_attempt).candidate.side) = "sell"
    /\ returned = Some(FALSE)
    /\ Len(committed) = 1

\* the candidates of the decisions committed since the last reset
CommittedCandidates == [i \in 1..Len(committed) |-> committed[i].candidate]

\* the orders placed since the last reset, as deltas
PlacedDeltas == [i \in 1..Len(placed) |-> [candidate |-> placed[i]]]

\* C4: in a run of the scheduler the commits are the successful placements:
\* each placement that returned is followed by one commit of its candidate, no
\* commit happens without it, and between the attempts the aggregates are the
\* last reset's snapshot with the orders placed since applied.
C4_CommitIffPlaced ==
    IF pc \in {"buy_committing", "sell_committing"}
    THEN placed = Append(CommittedCandidates, The(cand))
    ELSE /\ placed = CommittedCandidates
         /\ Ready => Stored = FoldDeltas(OfSnapshot(The(account_snapshot)),
                                         PlacedDeltas)

\* C4 witness: in one buy pass one order was placed and committed and the
\* placement of the next has raised.
C4_Witness ==
    /\ pc = "buy_loop"
    /\ Len(placed) = 1
    /\ Len(place_calls) = 2
    /\ The(last_attempt).result = "rpc_failed"
    /\ Stored # OfSnapshot(The(account_snapshot))

\* C5: place_limit_order is called only on the evaluate step of an attempt
\* whose evaluate returned a decision, and for that candidate; an evaluate
\* that raises calls nothing.
C5_NoPlacementWithoutDecision ==
    [][/\ (EvaluateStep /\ The(last_eval').outcome # "ok")
            => place_calls' = place_calls
       /\ (place_calls' # place_calls /\ ~ResetStep) =>
            LET call == place_calls'[Len(place_calls')]
            IN  /\ EvaluateStep
                /\ The(last_eval').outcome = "ok"
                /\ place_calls' = Append(place_calls, call)
                /\ call.candidate = The(last_eval').candidate
                /\ call.order.market_id = call.candidate.market_id
                /\ call.order.token_id = call.candidate.token_id
                /\ call.order.price = DecStr(call.candidate.price)
    ]_vars

\* C5 witness: after an order was placed, the evaluate of a candidate has
\* raised a violation and no further placement was called.
C5_Witness ==
    /\ last_attempt # None
    /\ The(last_attempt).result = "violation"
    /\ The(last_eval).outcome = "RiskViolation"
    /\ Len(placed) = 1
    /\ Len(place_calls) = 1

\* C6: the operation of the RiskManager that precedes a commit is the evaluate
\* that returned the decision committed; and when an evaluate that returned a
\* decision is followed by another evaluate or a reset, the attempt had been
\* abandoned on a failed placement.
C6_EvaluateThenCommitOrAbandon ==
    [][/\ CommitStep =>
            /\ last_op = "evaluate"
            /\ The(last_eval).outcome = "ok"
            /\ committed'[Len(committed')].candidate = The(last_eval).candidate
            /\ committed'[Len(committed')].timestamp = The(last_eval).at
       /\ ((EvaluateStep \/ ResetStep) /\ last_op = "evaluate"
           /\ The(last_eval).outcome = "ok") =>
            /\ last_attempt # None
            /\ The(last_attempt).result = "rpc_failed"
            /\ The(last_attempt).candidate = The(last_eval).candidate
            /\ decision = None
    ]_vars

\* C6 witness: one candidate was evaluated and abandoned on a failed
\* placement, and the next has been evaluated and committed.
C6_Witness ==
    /\ Len(place_calls) = 2
    /\ Len(committed) = 1
    /\ last_op = "commit"
    /\ committed[1].candidate = place_calls[2].candidate
    /\ committed[1].candidate # place_calls[1].candidate

\* C9: a reset leaves the cooldown history as it was, and a candidate whose
\* key was committed before the reset is rejected as a duplicate after it
\* while its window is open.
C9_ResetKeepsCooldowns ==
    [][ResetStep =>
        /\ last_order_times' = last_order_times
        /\ \A key \in DOMAIN commit_log :
              WindowOpenAt(key, now) =>
                  RejectedAsDuplicate(Evaluate(commit_log[key].candidate))'
    ]_vars

\* C9 witness: in the second cycle a candidate is rejected as a duplicate of
\* an order committed in the first, no decision having been committed since
\* the last reset.
C9_Witness ==
    /\ cycle_index = 2
    /\ last_op = "evaluate"
    /\ RejectedAsDuplicate(The(last_eval))
    /\ committed = <<>>
    /\ The(last_eval).committed_ts # None

\* C13 as stated: once the cycles have begun, no exception of a cycle's steps
\* (the reset, the buy pass, the refresh before the sell pass, the sell pass,
\* the refresh after it) ends the run.
C13_CycleFailureNeverEndsRun == cycle_index >= 1 => pc # "crashed"

\* the latest evaluate of the cycle raised an error that is not a
\* RiskViolation, and the pass it was made in has raised it on
ErrorOfEvaluateRaised ==
    /\ pc \in {"buy_raised", "manage_raised"}
    /\ last_op = "evaluate"
    /\ The(last_eval).outcome \notin {"ok", "RiskViolation"}

\* C14 as stated: when an evaluate of a cycle raises a lifecycle or
\* configuration error (a manager never reset, a threshold that does not
\* convert), the error leaves the run: it is not counted as a cycle error and
\* no further cycle follows.
C14_ConfigErrorLeavesRun ==
    [][ErrorOfEvaluateRaised =>
          /\ pc' = "crashed"
          /\ Get(metrics', "cycle_errors", 0) = Get(metrics, "cycle_errors", 0)
    ]_vars

\* the step on which the handling of one candidate or position fails: its
\* evaluate raises a RiskViolation, its placement raises, or the fetch of its
\* orderbook ends without a price (no asks, or the fetch raises)
CandidateFailsStep ==
    \/ EvaluateStep /\ The(last_eval').outcome = "RiskViolation"
    \/ PlaceRaisedStep
    \/ pc = "sell_fetching" /\ pc' # "sell_fetching" /\ ~EvaluateStep

\* C16 as stated: a failure while one candidate or position is handled
\* abandons that one only: the pass goes on to the next candidate or position.
C16_FailureAbandonsOneCandidate ==
    [][CandidateFailsStep =>
          /\ pc' \in {"buy_loop", "sell_loop"}
          /\ idx' = idx + 1
          /\ account_state' = account_state
    ]_vars

-----------------------------------------------------------------------------
(* Properties of the analyzer and of the candidate builder.                *)

\* build_buy_candidates has returned, and the metrics it was given
Built == pc \in {"built", "built_given"}
BuiltFrom == IF pc = "built" THEN top_metrics ELSE market_metrics

\* the account has an open buy order, a position that is not zero, for a token
HasOpenBuy(a, t) ==
    \E k \in DOMAIN a.open_orders :
        a.open_orders[k].token_id = t /\ Lower(a.open_orders[k].side) = "buy"
HasPosition(a, t) ==
    \E k \in DOMAIN a.positions :
        a.positions[k].token_id = t /\ a.positions[k].shares # 0

\* the metric has both sides and a bid above 0
Priced(m) ==
    /\ m.best_bid # None /\ m.best_ask # None
    /\ The(m.best_bid).price.coef > 0

\* C17: every candidate build_buy_candidates returns is a buy for a token of
\* the metrics given that has no open buy order and no position in the
\* account; a token that has one gets no candidate, whatever its metrics.
C17_NoCandidateForHeldToken ==
    Built =>
        LET a == The(account_state)
        IN  /\ \A i \in DOMAIN candidates :
                  /\ candidates[i].side = "buy"
                  /\ ~HasOpenBuy(a, candidates[i].token_id)
                  /\ ~HasPosition(a, candidates[i].token_id)
                  /\ \E j \in DOMAIN BuiltFrom :
                        BuiltFrom[j].token_id = candidates[i].token_id
            /\ \A j \in DOMAIN BuiltFrom :
                  (HasOpenBuy(a, BuiltFrom[j].token_id)
                   \/ HasPosition(a, BuiltFrom[j].token_id)) =>
                      \A i \in DOMAIN candidates :
                          candidates[i].token_id # BuiltFrom[j].token_id

\* C17 witness: of three priced metrics one is of a token held in a position,
\* one of a token with an open buy order, and the third has its candidate.
C17_Witness ==
    /\ Built
    /\ Len(candidates) = 1
    /\ \E j \in DOMAIN BuiltFrom :
          Priced(BuiltFrom[j]) /\ HasPosition(The(account_state), BuiltFrom[j].token_id)
    /\ \E j \in DOMAIN BuiltFrom :
          /\ Priced(BuiltFrom[j])
          /\ HasOpenBuy(The(account_state), BuiltFrom[j].token_id)
          /\ ~HasPosition(The(account_state), BuiltFrom[j].token_id)

\* b is q / p rounded down to 4 decimal places: a multiple of the step with
\* b * p <= q < (b + step) * p
IsFloorAtFourDecimals(b, q, p) ==
    /\ b % FOUR_DP = 0
    /\ b * p.coef <= q * Pow10(0 - p.exp)
    /\ (b + FOUR_DP) * p.coef > q * Pow10(0 - p.exp)

\* the metric is eligible in the account and q / p is at least one step
Emits(m, a) ==
    /\ Priced(m)
    /\ ~HasOpenBuy(a, m.token_id)
    /\ ~HasPosition(a, m.token_id)
    /\ order_quote_amount * Pow10(0 - The(m.best_bid).price.exp)
           >= FOUR_DP * The(m.best_bid).price.coef

\* C18: the candidates returned are, in the order of the metrics, one for
\* each eligible metric with a bid p > 0 whose q / p rounded down to 4
\* decimals is above 0: a buy at p of quote amount q and of that base
\* amount; q = 20 and p = 0.4 give 50.0000.
C18_BaseIsQuoteOverBidFloored ==
    Built =>
        LET a == The(account_state)
            emitting == SelectSeq(BuiltFrom, LAMBDA m : Emits(m, a))
        IN  /\ Len(candidates) = Len(emitting)
            /\ \A i \in DOMAIN candidates :
                  LET c == candidates[i]
                      m == emitting[i]
                  IN  /\ c.market_id = m.market_id
                      /\ c.token_id = m.token_id
                      /\ c.side = "buy"
                      /\ c.price = The(m.best_bid).price
                      /\ c.quote_amount = order_quote_amount
                      /\ c.base_amount > 0
                      /\ IsFloorAtFourDecimals(c.base_amount, c.quote_amount, c.price)
                      /\ (c.quote_amount = Amt(20) /\ c.price = P04)
                            => c.base_amount = Amt(50)

\* C18 witness: with q = 20 a candidate at 0.4 has the base amount 50.0000
\* and one at 0.3 has 66.6666.
C18_Witness ==
    /\ Built
    /\ order_quote_amount = Amt(20)
    /\ \E i \in DOMAIN candidates :
          candidates[i].price = P04 /\ candidates[i].base_amount = Amt(50)
    /\ \E i \in DOMAIN candidates :
          candidates[i].price = P03 /\ candidates[i].base_amount = 666666 * FOUR_DP

\* C19 as stated: with an order quote amount of 1 no candidate is built at a
\* best bid of 1000.
C19_OneOverThousandDropped ==
    (Built /\ order_quote_amount = Amt(1)) =>
        \A i \in DOMAIN candidates : candidates[i].price # P1000

\* C19 amended: with an order quote amount of 1 an eligible metric with a best
\* bid of 1000 gets a candidate of base amount 0.0010, 1 / 1000 being on the
\* 4-decimal grid; one with a best bid of 10001, where 1 / 10001 is below
\* 0.0001, floors to 0 and gets none.
C19_OneOverThousandEmitted ==
    (Built /\ order_quote_amount = Amt(1)) =>
        \A j \in DOMAIN BuiltFrom :
            LET m == BuiltFrom[j]
                a == The(account_state)
            IN  (Priced(m) /\ ~HasOpenBuy(a, m.token_id) /\ ~HasPosition(a, m.token_id)) =>
                  /\ The(m.best_bid).price = P1000 =>
                        \E i \in DOMAIN candidates :
                            /\ candidates[i].token_id = m.token_id
                            /\ candidates[i].price = P1000
                            /\ candidates[i].base_amount = 10 * FOUR_DP
                  /\ The(m.best_bid).price = P10001 =>
                        \A i \in DOMAIN candidates : candidates[i].price # P10001

\* C19 witness: with an order quote amount of 1 a candidate of base amount
\* 0.0010 was built at a bid of 1000, and none at a bid of 10001.
C19_Witness ==
    /\ Built
    /\ order_quote_amount = Amt(1)
    /\ Len(candidates) = 1
    /\ candidates[1].price = P1000
    /\ candidates[1].base_amount = 10 * FOUR_DP
    /\ \E j \in DOMAIN BuiltFrom :
          /\ Priced(BuiltFrom[j])
          /\ The(BuiltFrom[j].best_bid).price = P10001
          /\ ~HasOpenBuy(The(account_state), BuiltFrom[j].token_id)
          /\ ~HasPosition(The(account_state), BuiltFrom[j].token_id)

\* the metric passes the filter: both sides, enough liquidity, a spread within
\* the maximum and a mid-price (bid + ask) / 2 within the range
PassesFilter(m) ==
    /\ m.best_bid # None /\ m.best_ask # None
    /\ m.liquidity_score >= strategy.min_liquidity
    /\ m.spread # None /\ The(m.spread) <= strategy.max_spread
    /\ 2 * strategy.min_price
          <= PriceUnits(The(m.best_bid).price) + PriceUnits(The(m.best_ask).price)
    /\ PriceUnits(The(m.best_bid).price) + PriceUnits(The(m.best_ask).price)
          <= 2 * strategy.max_price

\* how often m occurs in the list ms
Occurrences(m, ms) == Cardinality({k \in DOMAIN ms : ms[k] = m})

\* select_top_tokens has returned
SelectionMade == pc \in {"selected", "built"}

\* C20: every metric select_top_tokens returns is one of those analysed and
\* passes the filter; it returns as many as pass, or top_n_tokens of them if
\* more pass, so that none that passes is left out but by the truncation; a
\* spread of 0.2 is not returned under a maximum of 0.1, a passing token of
\* spread 0.02 is.
C20_SelectionIsTheFilter ==
    SelectionMade =>
        LET passing == SelectSeq(market_metrics, PassesFilter)
        IN  /\ \A i \in DOMAIN top_metrics : PassesFilter(top_metrics[i])
            /\ \A m \in MetricPool :
                  Occurrences(m, top_metrics) <= Occurrences(m, market_metrics)
            /\ Len(top_metrics) =
                  IF Len(passing) <= strategy.top_n_tokens THEN Len(passing)
                  ELSE strategy.top_n_tokens
            /\ Len(passing) <= strategy.top_n_tokens =>
                  \A m \in MetricPool :
                      PassesFilter(m) =>
                          Occurrences(m, top_metrics) = Occurrences(m, market_metrics)
            /\ strategy.max_spread = ONE \div 10 =>
                  \A i \in DOMAIN top_metrics :
                      The(top_metrics[i].spread) # 2 * (ONE \div 10)

\* C20 witness: of two tokens analysed, with spreads of 0.02 and 0.2 and a
\* maximum of 0.1, the one of spread 0.02 alone was returned.
C20_Witness ==
    /\ SelectionMade
    /\ strategy.max_spread = ONE \div 10
    /\ Len(market_metrics) = 2
    /\ market_metrics[1].spread = Some(2 * (ONE \div 10))
    /\ market_metrics[2].spread = Some(2 * (ONE \div 100))
    /\ top_metrics = <<market_metrics[2]>>

\* a comes no later than b in the order by ascending spread, ties broken by
\* descending liquidity
InSpreadOrder(a, b) ==
    \/ The(a.spread) < The(b.spread)
    \/ The(a.spread) = The(b.spread) /\ a.liquidity_score >= b.liquidity_score

\* C21: what select_top_tokens returns is ordered by ascending spread, ties
\* broken by descending liquidity; a passing metric it leaves out comes no
\* earlier in that order than any it returns; nothing analysed gives the
\* empty list.
C21_OrderedBySpreadThenLiquidity ==
    SelectionMade =>
        /\ \A i, j \in DOMAIN top_metrics :
              i < j => InSpreadOrder(top_metrics[i], top_metrics[j])
        /\ \A m \in MetricPool :
              (PassesFilter(m)
               /\ Occurrences(m, top_metrics) < Occurrences(m, market_metrics)) =>
                  \A i \in DOMAIN top_metrics : InSpreadOrder(top_metrics[i], m)
        /\ market_metrics = <<>> => top_metrics = <<>>

-----------------------------------------------------------------------------
(* Properties of the sell pass.                                            *)

\* the sum of the remaining sizes of the first n open orders that are sell
\* orders of market m
RECURSIVE SellRemaining(_, _, _)
SellRemaining(orders, m, n) ==
    IF n = 0 THEN 0
    ELSE SellRemaining(orders, m, n - 1)
         + (IF orders[n].market_id = m /\ orders[n].side \in {"sell", "SELL"}
            THEN orders[n].remaining ELSE 0)

\* the shares of the position manage is at, less what the open sell orders of
\* its market still offer
SharesUncovered ==
    LET account == The(account_state)
        position == account.positions[idx]
    IN  position.shares
        - SellRemaining(account.open_orders, position.market_id,
                        Len(account.open_orders))

\* manage is at a position
AtPosition ==
    /\ pc \in {"sell_loop", "sell_fetching"}
    /\ idx \in DOMAIN The(account_state).positions

\* the prices of the first levels of the ask sides
FirstAskPrices == { asks[1].price : asks \in AskSides \ {<<>>} }

\* C22: at a position whose uncovered shares are within sell_order_threshold
\* manage evaluates nothing and places nothing; what it evaluates at a
\* position is a sell of that position's token, at the price of the first ask
\* level, for all of the uncovered shares, which are above the threshold; and
\* what it submits is that candidate, at that price, with those shares as
\* amount_in_base in the 4-decimal format.
C22_StepOfManage ==
    AtPosition =>
        /\ SharesUncovered <= config.sell_order_threshold =>
              /\ pc = "sell_loop"
              /\ UNCHANGED <<rmVars, last_eval, calls, place_calls>>
              /\ idx' = idx + 1 /\ pc' = "sell_loop"
        /\ calls' # calls =>
              LET c == The(last_eval').candidate
                  position == The(account_state).positions[idx]
              IN  /\ pc = "sell_fetching" /\ last_op' = "evaluate"
                  /\ SharesUncovered > config.sell_order_threshold
                  /\ c.side = "sell"
                  /\ c.market_id = position.market_id
                  /\ c.token_id = position.token_id
                  /\ c.price \in FirstAskPrices
                  /\ c.base_amount = SharesUncovered
        /\ place_calls' # place_calls =>
              LET c == The(last_eval').candidate
                  call == place_calls'[Len(place_calls')]
              IN  /\ calls' # calls
                  /\ place_calls' = Append(place_calls, call)
                  /\ call.candidate = c
                  /\ call.order.side = "sell"
                  /\ call.order.market_id = c.market_id
                  /\ call.order.token_id = c.token_id
                  /\ call.order.price = DecStr(c.price)
                  /\ call.order.amount_in_base
                       = Some((SharesUncovered \div FOUR_DP) * FOUR_DP)
C22_SellsTheUncoveredSharesAtFirstAsk == [][C22_StepOfManage]_vars

\* C22 witness: with a threshold of 5 manage has submitted, at the first of
\* two ask levels, a sell for the 30 shares of its first position, and has
\* passed its second, of whose 60 shares a sell order of 57 leaves 3
\* uncovered, without considering it.
C22_Witness ==
    /\ pc = "sell_loop"
    /\ idx = 3
    /\ config.sell_order_threshold = Amt(5)
    /\ The(account_state).positions[2].shares = Amt(60)
    /\ The(account_state).open_orders = <<OpenOrder(2, "t2", "sell", Amt(57))>>
    /\ summary["sell_orders_considered"] = 1
    /\ summary["sell_orders_success"] = 1
    /\ place_calls # <<>>
    /\ LET call == place_calls[Len(place_calls)]
       IN  /\ call.candidate.token_id = "t1"
           /\ call.candidate.price = P05
           /\ call.candidate.base_amount = Amt(30)
           /\ call.order.amount_in_base = Some(Amt(30))

-----------------------------------------------------------------------------
(* Further properties of the RiskManager.                                  *)

\* the shares of the first n positions that are in one of the markets
RECURSIVE SharesHeld(_, _, _)
SharesHeld(positions, markets, n) ==
    IF n = 0 THEN 0
    ELSE SharesHeld(positions, markets, n - 1)
         + (IF positions[n].market_id \in markets THEN positions[n].shares ELSE 0)

\* C23: after reset(snapshot) the available quote is the snapshot's available
\* USDT balance, 0 when it has none, the total position is the sum of the
\* shares of its positions, and the per-market map has for every market the
\* sum of the shares of the positions in it, whatever was stored before.
C23_ResetReplacesAggregates ==
    [][ResetStep =>
        LET snapshot == The(account_snapshot')
            positions == snapshot.positions
        IN  /\ available_quote' =
                  IF "USDT" \in DOMAIN snapshot.available_balances
                  THEN snapshot.available_balances["USDT"] ELSE 0
            /\ total_position' = SharesHeld(positions, MarketIds, Len(positions))
            /\ \A m \in MarketIds :
                  Get(position_by_market', m, 0)
                    = SharesHeld(positions, {m}, Len(positions))
            /\ DOMAIN position_by_market'
                  = { positions[k].market_id : k \in DOMAIN positions }
    ]_vars

\* C23 witness: a reset that followed a committed decision has stored, of a
\* snapshot without a USDT balance and with two positions of 5 shares in
\* market 1, an available quote of 0, a total of 10 and 10 for market 1 alone.
C23_Witness ==
    /\ last_op = "reset"
    /\ DOMAIN commit_log # {}
    /\ The(account_snapshot).available_balances = EmptyDict
    /\ Len(The(account_snapshot).positions) = 2
    /\ available_quote = 0
    /\ total_position = Amt(10)
    /\ DOMAIN position_by_market = {1}
    /\ position_by_market[1] = Amt(10)

-----------------------------------------------------------------------------
(* Properties of the placement.                                            *)

\* the order carries exactly one of the two amounts
OneAmount(order) ==
    (order.amount_in_quote = None) # (order.amount_in_base = None)

\* the arguments the core passes: a buy carries amount_in_quote alone, a sell
\* amount_in_base alone
CoreCallsCarryOneAmount ==
    \A k \in DOMAIN place_calls :
        LET order == place_calls[k].order
            candidate == place_calls[k].candidate
        IN  /\ order = BuyOrder(candidate) =>
                  order.amount_in_quote # None /\ order.amount_in_base = None
            /\ order = SellOrder(candidate) =>
                  order.amount_in_base # None /\ order.amount_in_quote = None

\* a call with both amounts or with neither raises the ValueError and hands
\* nothing to the exchange; a call with one amount hands the exchange an order
\* with that amount
ClientChecksAmounts ==
    place_calls' # place_calls =>
        LET call == place_calls'[Len(place_calls')]
        IN  /\ place_calls' = Append(place_calls, call)
            /\ IF OneAmount(call.order)
               THEN /\ returned' # Some("ValueError")
                    /\ Len(exchange_orders') = Len(exchange_orders) + 1
                    /\ LET sent == exchange_orders'[Len(exchange_orders')]
                       IN  /\ sent.makerAmountInQuoteToken = call.order.amount_in_quote
                           /\ sent.makerAmountInBaseToken = call.order.amount_in_base
               ELSE /\ returned' = Some("ValueError")
                    /\ exchange_orders' = exchange_orders
                    /\ placed' = placed

\* C24: the arguments submit_buy_order builds carry amount_in_quote and no
\* amount_in_base, those submit_sell_order and manage build carry
\* amount_in_base and no amount_in_quote; place_limit_order raises on a call
\* with both amounts or with neither before anything is handed to the
\* exchange.
C24_ExactlyOneAmount ==
    /\ []CoreCallsCarryOneAmount
    /\ [][ClientChecksAmounts]_vars

\* C24 witness: of three calls the one with the arguments of a buy reached
\* the exchange with its quote amount alone, and the one with both amounts
\* and the one with neither did not.
C24_Witness ==
    /\ pc = "client_caller"
    /\ Len(place_calls) = 3
    /\ place_calls[1].order = BuyOrder(place_calls[1].candidate)
    /\ place_calls[2].order.amount_in_quote # None
    /\ place_calls[2].order.amount_in_base # None
    /\ place_calls[3].order.amount_in_quote = None
    /\ place_calls[3].order.amount_in_base = None
    /\ returned = Some("ValueError")
    /\ Len(exchange_orders) = 1
    /\ exchange_orders[1].makerAmountInQuoteToken = Some(Amt(20))
    /\ exchange_orders[1].makerAmountInBaseToken = None

-----------------------------------------------------------------------------
(* Properties of the order of evaluate's checks.                           *)

\* the checks of a buy in their order, each with its reason and whether the
\* candidate violates it in the current state
BuyChecks(c) ==
    << [violated |-> WindowOpenAt(KeyOf(c), now),
        reason |-> "Duplicate order detected within cooldown window"],
       [violated |-> c.quote_amount <= 0,
        reason |-> "Invalid quote amount for buy order"],
       [violated |-> c.quote_amount > available_quote,
        reason |-> "Quote amount exceeds available balance"],
       [violated |-> available_quote - c.quote_amount < config.min_available_balance,
        reason |-> "Insufficient available balance after order"],
       [violated |-> total_position + c.base_amount > config.max_total_position,
        reason |-> "Total position limit exceeded"],
       [violated |-> Get(position_by_market, c.market_id, 0) + c.base_amount
                        > config.max_position_per_market,
        reason |-> "Market position limit exceeded"] >>
ViolatedChecks(c) ==
    LET checks == BuyChecks(c) IN { k \in 1..6 : checks[k].violated }

\* C25: a buy that violates checks is rejected with the reason of the first
\* it violates in the order duplicate, non-positive quote amount, quote above
\* the available balance, remaining balance below the minimum, total cap,
\* market cap; one that violates none is accepted.
C25_FirstViolatedCheckIsReported ==
    Ready =>
        \A c \in RMCandidates :
            Lower(c.side) = "buy" =>
                LET checks == BuyChecks(c)
                    violated == ViolatedChecks(c)
                    result == Evaluate(c)
                IN  IF violated = {} THEN result.outcome = "ok"
                    ELSE /\ result.outcome = "RiskViolation"
                         /\ result.reason
                              = checks[CHOOSE k \in violated :
                                         \A j \in violated : k <= j].reason

\* C25 witness: the buy evaluated last was rejected as a duplicate although
\* it violates two of the limits as well, and a buy that exceeds both caps is
\* rejected for the total cap.
C25_Witness ==
    /\ last_op = "evaluate"
    /\ The(last_eval).reason = "Duplicate order detected within cooldown window"
    /\ Lower(The(last_eval).candidate.side) = "buy"
    /\ Cardinality(ViolatedChecks(The(last_eval).candidate)) >= 3
    /\ \E c \in RMCandidates :
          /\ Lower(c.side) = "buy"
          /\ {5, 6} \subseteq ViolatedChecks(c)
          /\ Evaluate(c).reason = "Total position limit exceeded"

-----------------------------------------------------------------------------
(* Properties of the side of a candidate.                                  *)

\* the side is neither buy nor sell in any spelling
UnsupportedSide(c) == c.side \notin {"buy", "BUY", "sell", "SELL"}

\* C26: an evaluate of a candidate whose side is neither buy nor sell, made
\* on an initialised manager, is rejected as an unsupported side; it leaves
\* the manager's state as it was and no place_limit_order call is made for
\* it; no order placed and no decision committed is of such a candidate.
C26_StepOnUnsupportedSide ==
    (EvaluateStep /\ UnsupportedSide(The(last_eval').candidate)) =>
        /\ The(last_eval').was_ready =>
              /\ The(last_eval').outcome = "RiskViolation"
              /\ The(last_eval').reason = "Unsupported order side"
        /\ The(last_eval').outcome # "ok"
        /\ UNCHANGED rmVars
        /\ UNCHANGED <<place_calls, placed, exchange_orders, committed>>
C26_UnsupportedSideRejected ==
    /\ [][C26_StepOnUnsupportedSide]_vars
    /\ [](/\ \A k \in DOMAIN place_calls : ~UnsupportedSide(place_calls[k].candidate)
          /\ \A k \in DOMAIN placed : ~UnsupportedSide(placed[k])
          /\ \A k \in DOMAIN committed : ~UnsupportedSide(committed[k].candidate))

\* C26 witness: a candidate of side hold for 5 shares was rejected as an
\* unsupported side by a manager that holds 30 shares in its market, and no
\* call of place_limit_order was made.
C26_Witness ==
    /\ last_op = "evaluate"
    /\ The(last_eval).candidate.side = "hold"
    /\ The(last_eval).candidate.base_amount = Amt(5)
    /\ The(last_eval).reason = "Unsupported order side"
    /\ Get(position_by_market, The(last_eval).candidate.market_id, 0) = Amt(30)
    /\ place_calls = <<>>
    /\ pc = "exec_caller"

-----------------------------------------------------------------------------
(* Properties of commit.                                                   *)

\* C27: commit(decision) leaves the available quote and the total position at
\* the decision's projections and the decision's timestamp under its
\* duplicate key; the market of its candidate holds the projected market
\* position if that is above zero and has no entry otherwise, so that a sell
\* in it is then refused for the market's position; no other key and no other
\* market is touched.
C27_StepOfCommit ==
    CommitStep =>
        LET d == committed'[Len(committed')]
            m == d.candidate.market_id
        IN  /\ available_quote' = d.available_quote
            /\ total_position' = d.total_position
            /\ d.duplicate_key \in DOMAIN last_order_times'
            /\ last_order_times'[d.duplicate_key] = d.timestamp
            /\ \A key \in DOMAIN last_order_times' \ {d.duplicate_key} :
                  /\ key \in DOMAIN last_order_times
                  /\ last_order_times'[key] = last_order_times[key]
            /\ IF d.market_position > 0
               THEN /\ m \in DOMAIN position_by_market'
                    /\ position_by_market'[m] = d.market_position
               ELSE /\ m \notin DOMAIN position_by_market'
                    /\ \A c \in RMCandidates :
                          (c.market_id = m /\ c.side = "sell" /\ c.base_amount > 0
                           /\ c.base_amount <= d.total_position
                           /\ ~WindowOpenAt(KeyOf(c), now)') =>
                              Evaluate(c)'.reason = "Sell amount exceeds market position"
            /\ \A x \in MarketIds \ {m} :
                  /\ x \in DOMAIN position_by_market' <=> x \in DOMAIN position_by_market
                  /\ Get(position_by_market', x, 0) = Get(position_by_market, x, 0)
C27_CommitStoresProjection == [][C27_StepOfCommit]_vars

\* C27 witness: the sell of all 30 shares of market 1 has been committed; the
\* market has no entry any more while market 2 keeps its 60, and the total is
\* 60.
C27_Witness ==
    /\ last_op = "commit"
    /\ committed[Len(committed)].candidate.side = "sell"
    /\ committed[Len(committed)].candidate.base_amount = Amt(30)
    /\ committed[Len(committed)].market_position = 0
    /\ DOMAIN position_by_market = {2}
    /\ position_by_market[2] = Amt(60)
    /\ total_position = Amt(60)
    /\ DOMAIN last_order_times # {}

-----------------------------------------------------------------------------
(* Properties of the scheduler's cycle.                                    *)

\* where a run is: 0 at the startup refresh and reset, 1 before a cycle's
\* reset, 2 in the buy pass, 3 at the refresh that follows it, 4 in the sell
\* pass (its reset made), 5 at the refresh after the cycle's body, 6 asleep,
\* 7 once an exception has left run()
StepOf(p) ==
    CASE p = "startup_refresh" -> 0
      [] p = "cycle_start" -> 1
      [] p \in {"fetch_markets", "buy_loop", "buy_placing", "buy_committing",
                "buy_raised"} -> 2
      [] p = "mid_refresh" -> 3
      [] p \in {"sell_loop", "sell_fetching", "sell_placing", "sell_committing",
                "manage_returned", "manage_raised"} -> 4
      [] p = "post_refresh" -> 5
      [] p = "sleeping" -> 6
      [] p = "crashed" -> 7

\* the order of the steps: each is followed by the next, the sleep by the
\* next cycle
InOrder(a, b) == (a \in 0..5 /\ b = a + 1) \/ (a = 6 /\ b = 1)

\* C28: a run goes through startup refresh and reset, then per cycle reset,
\* buy pass, refresh, reset and sell pass, refresh, sleep, in this order, a
\* failing step of the body leading on to the refresh after the body; a reset
\* is made exactly at the startup, at the start of a cycle and before the
\* sell pass, each with the snapshot the latest refresh returned; and every
\* evaluate is made in a pass, on a manager that has been reset.
C28_StepOfRun ==
    LET a == StepOf(pc)
        b == StepOf(pc')
        refreshed == a \in {0, 3, 5} /\ InOrder(a, b)
    IN  /\ \/ b = a
           \/ InOrder(a, b)
           \/ (a \in {2, 3, 4} /\ b = 5)
           \/ (a \in {0, 5} /\ b = 7)
        /\ ResetStep <=> (a \in {0, 1, 3} /\ InOrder(a, b))
        /\ ResetStep => account_snapshot' = account_state'
        /\ account_state' # account_state => refreshed
        /\ refreshed => account_state' # None /\ The(account_state') \in Accounts
        /\ EvaluateStep =>
              /\ a \in {2, 4}
              /\ account_snapshot # None
              /\ account_snapshot = account_state
C28_RunFollowsCycleOrder == [][C28_StepOfRun]_vars

\* C28 witness: the second cycle has gone through without an error and the
\* run sleeps, the refresh after the sell pass having returned a snapshot
\* that no reset has been given yet.
C28_Witness ==
    /\ pc = "sleeping"
    /\ cycle_index = 2
    /\ Get(metrics, "cycle_errors", 0) = 0
    /\ Get(metrics, "sell_orders_success", 0) >= 1
    /\ Get(metrics, "buy_orders_success", 0) >= 1
    /\ account_snapshot # account_state

\* the count of cycle errors, and the duration of the cycle under way
CycleErrors == Get(metrics, "cycle_errors", 0)
DurationRecorded ==
    /\ "last_cycle_duration" \in DOMAIN metrics'
    /\ metrics'["last_cycle_duration"] = now - start_time
    /\ Get(metrics', "cycle_duration_total", 0)
         = Get(metrics, "cycle_duration_total", 0) + (now - start_time)

\* a step of the cycle's body raises; the body runs to its end
BodyFails ==
    /\ StepOf(pc) \in {2, 3, 4} /\ pc # "manage_returned"
    /\ pc' = "post_refresh"
BodyCompletes == pc = "manage_returned" /\ pc' = "post_refresh"

\* C29: when a step of the body raises, the run goes on to the refresh after
\* the body without the steps that remained, cycle_errors goes up by one and
\* the duration of the cycle is recorded; when the body runs to its end the
\* duration is recorded and cycle_errors stays; no other step changes
\* cycle_errors, which never exceeds the number of cycles begun.
C29_StepOfBody ==
    /\ BodyFails =>
          /\ CycleErrors' = CycleErrors + 1
          /\ DurationRecorded
          /\ UNCHANGED <<rmVars, place_calls, placed, committed, calls, account_state>>
          /\ \A k \in DOMAIN metrics' \ {"cycle_errors", "last_cycle_duration",
                                         "cycle_duration_total"} :
                k \in DOMAIN metrics /\ metrics'[k] = metrics[k]
    /\ BodyCompletes => (CycleErrors' = CycleErrors /\ DurationRecorded)
    /\ ~BodyFails => CycleErrors' = CycleErrors
    /\ ~(BodyFails \/ BodyCompletes) =>
          Get(metrics', "cycle_duration_total", 0)
            = Get(metrics, "cycle_duration_total", 0)
C29_FailedCycleCountedOnce ==
    /\ [][C29_StepOfBody]_vars
    /\ [](CycleErrors <= cycle_index)

\* C29 witness: the fetch of the markets failed after 30 seconds in the first
\* cycle: one cycle error and a duration of 30 are recorded, and neither a
\* buy nor a sell summary.
C29_Witness ==
    /\ pc = "post_refresh"
    /\ cycle_index = 1
    /\ CycleErrors = 1
    /\ "last_cycle_duration" \in DOMAIN metrics
    /\ metrics["last_cycle_duration"] = 30
    /\ DOMAIN metrics = {"cycle_errors", "last_cycle_duration", "cycle_duration_total"}
    /\ last_op = "reset"

\* manage's count of a name
Counted(name) == Get(summary, name, 0)

\* the orderbook fetched for the position had no asks
NoAsksReturned == \E asks \in AskSides : asks = <<>> /\ SellNoAsks(asks)

\* C30: when the orderbook fetched for a position that needs a sell has no
\* asks, sell_orders_failed goes up by one and no other count changes, no
\* evaluate and no place_limit_order call is made, the risk state stays as it
\* was, and manage goes on to the next position; and a step from the fetch
\* back to the loop that makes no evaluate is such a step.
C30_StepOnNoAsks ==
    /\ NoAsksReturned =>
          /\ Counted("sell_orders_failed")' = Counted("sell_orders_failed") + 1
          /\ \A name \in {"sell_orders_considered", "sell_orders_blocked",
                          "sell_orders_success"} :
                Counted(name)' = Counted(name)
          /\ UNCHANGED <<rmVars, calls, last_eval, place_calls, placed,
                         exchange_orders, committed>>
          /\ idx' = idx + 1
          /\ pc' = "sell_loop"
    /\ (pc = "sell_fetching" /\ pc' = "sell_loop" /\ ~EvaluateStep) => NoAsksReturned
C30_NoAsksCountsOneFailure == [][C30_StepOnNoAsks]_vars

\* C30 witness: of two positions that needed a sell the first found no asks
\* and the second was sold: one failure, one success, and the one
\* place_limit_order call is for the second position.
C30_Witness ==
    /\ pc = "sell_loop"
    /\ idx = 3
    /\ Counted("sell_orders_considered") = 2
    /\ Counted("sell_orders_failed") = 1
    /\ Counted("sell_orders_success") = 1
    /\ Len(place_calls) = 1
    /\ place_calls[1].candidate.token_id = The(account_state).positions[2].token_id
    /\ Len(committed) = 1

-----------------------------------------------------------------------------
(* state/account.py AccountStateManager.refresh, fetch by fetch, under the  *)
(* scheduler's `account_state = refresh()` at its three places in run().    *)
(* What the cycle does between two refreshes is left out.                   *)

\* what fetch_balances can return: the list read with .get("balances", []);
\* an item without a quote_token is skipped, a missing amount (None) converts
\* to the default 0
BalancesResponses ==
    { <<>>,
      <<[quote_token |-> "USDT", available_balance |-> Some(Amt(100))]>>,
      <<[quote_token |-> "", available_balance |-> Some(Amt(7))],
        [quote_token |-> "USDT", available_balance |-> None]>> }

\* what fetch_positions can return; an item without a token_id is skipped,
\* market_id None makes int() raise
PositionsResponses ==
    { <<>>,
      <<[token_id |-> "t1", market_id |-> Some(1),
         shares_owned |-> Some(Amt(30))],
        [token_id |-> "", market_id |-> Some(2),
         shares_owned |-> Some(Amt(9))]>>,
      <<[token_id |-> "t2", market_id |-> None,
         shares_owned |-> Some(Amt(60))]>> }

\* what fetch_orders can return; a missing market_id reads as 0
OrdersResponses ==
    { <<>>,
      <<[token_id |-> "t2", market_id |-> Some(2), side |-> "sell",
         maker_amount |-> Some(Amt(57))],
        [token_id |-> "", market_id |-> Some(1), side |-> "buy",
         maker_amount |-> Some(Amt(1))]>>,
      <<[token_id |-> "t3", market_id |-> None, side |-> "BUY",
         maker_amount |-> None]>> }

\* utils/decimal_utils.py to_decimal on the values that occur
ToDecimal(value) == IF value = None THEN 0 ELSE The(value)

\* refresh, lines 34-39
AvailableBalances(items) ==
    LET kept == SelectSeq(items, LAMBDA item : item.quote_token # "")
    IN  [token \in { kept[i].quote_token : i \in DOMAIN kept } |->
            LET last == CHOOSE i \in DOMAIN kept :
                            /\ kept[i].quote_token = token
                            /\ \A j \in DOMAIN kept :
                                   kept[j].quote_token = token => j <= i
            IN  ToDecimal(kept[last].available_balance)]

\* refresh, lines 41-54
PositionsOf(items) ==
    LET kept == SelectSeq(items, LAMBDA pos : pos.token_id # "")
    IN  [i \in DOMAIN kept |->
            Position(The(kept[i].market_id), kept[i].token_id,
                     ToDecimal(kept[i].shares_owned))]

\* refresh, line 48: int(None) raises TypeError
PositionsRaise(items) ==
    \E i \in DOMAIN items : items[i].token_id # "" /\ items[i].market_id = None

\* refresh, lines 56-70
OpenOrdersOf(items) ==
    LET kept == SelectSeq(items, LAMBDA order : order.token_id # "")
    IN  [i \in DOMAIN kept |->
            OpenOrder(IF kept[i].market_id = None THEN 0
                      ELSE The(kept[i].market_id),
                      kept[i].token_id, kept[i].side,
                      ToDecimal(kept[i].maker_amount))]

\* refresh, lines 72-77
BuildAccountState(balances, positions, orders) ==
    AccountState(AvailableBalances(balances), PositionsOf(positions),
                 OpenOrdersOf(orders))

\* the place of run() where the next refresh is called after one that
\* returned: line 131 after lines 116 and 142 (a new cycle), line 142 after
\* line 131
AfterRefresh ==
    CASE pc = "startup_refresh" -> "mid_refresh"
      [] pc = "mid_refresh" -> "post_refresh"
      [] pc = "post_refresh" -> "mid_refresh"

RefreshSites == {"startup_refresh", "mid_refresh", "post_refresh"}

InitRefresh ==
    /\ Constructed
    /\ config = RunConfig
    /\ strategy = RunStrategy
    /\ pc = "startup_refresh"

\* refresh, line 27
FetchBalances(response) ==
    /\ pc \in RefreshSites
    /\ cycle_index <= MaxCycles
    /\ balances_response = None
    /\ balances_response' = Some(response)
    /\ fetch_log' = <<[fetch |-> "balances", response |-> response]>>
    /\ UNCHANGED <<config, stratVars, now, rmVars, runVars, positions_response,
                   decision, exchVars, histVars>>

\* refresh, line 28
FetchPositions(response) ==
    /\ pc \in RefreshSites
    /\ balances_response # None
    /\ positions_response = None
    /\ positions_response' = Some(response)
    /\ fetch_log' = Append(fetch_log,
                           [fetch |-> "positions", response |-> response])
    /\ UNCHANGED <<config, stratVars, now, rmVars, runVars, balances_response,
                   decision, exchVars, histVars>>

\* an exception leaves refresh: its frame is gone; in run() the refresh of
\* line 131 is inside the try, those of lines 116 and 142 are not
RefreshRaised ==
    /\ pc' = IF pc = "mid_refresh" THEN "post_refresh" ELSE "crashed"
    /\ balances_response' = None
    /\ positions_response' = None
    /\ fetch_log' = <<>>
    /\ UNCHANGED <<config, stratVars, now, rmVars, account_state, cycle_index,
                   start_time, candidates, idx, cand, buy_counts, summary,
                   metrics, returned, decision, exchVars, histVars>>

\* refresh, lines 27-29: the fetch that is due raises
FetchRaises ==
    /\ pc \in RefreshSites
    /\ cycle_index <= MaxCycles
    /\ RefreshRaised

\* a faulty variant of RefreshReturns: the snapshot is assigned although the
\* conversion raised
RefreshReturns_Partial(response) ==
    /\ pc \in RefreshSites
    /\ positions_response # None
    /\ fetch_log' = Append(fetch_log,
                           [fetch |-> "orders", response |-> response])
    /\ account_state' =
          Some(AccountState(AvailableBalances(The(balances_response)),
                            IF PositionsRaise(The(positions_response))
                            THEN IF account_state = None THEN <<>>
                                 ELSE The(account_state).positions
                            ELSE PositionsOf(The(positions_response)),
                            OpenOrdersOf(response)))
    /\ pc' = AfterRefresh
    /\ cycle_index' = IF pc = "mid_refresh" THEN cycle_index
                      ELSE cycle_index + 1
    /\ balances_response' = None
    /\ positions_response' = None
    /\ UNCHANGED <<config, stratVars, now, rmVars, start_time, candidates,
                   idx, cand, buy_counts, summary, metrics, returned,
                   decision, exchVars, histVars>>

\* refresh, lines 29-77, and the assignment to account_state in run()
RefreshReturns(response) ==
    /\ pc \in RefreshSites
    /\ positions_response # None
    /\ IF PositionsRaise(The(positions_response))
       THEN RefreshRaised
       ELSE /\ fetch_log' = Append(fetch_log, [fetch |-> "orders",
                                               response |-> response])
            /\ account_state' =
                  Some(BuildAccountState(The(balances_response),
                                         The(positions_response), response))
            /\ pc' = AfterRefresh
            /\ cycle_index' = IF pc = "mid_refresh" THEN cycle_index
                              ELSE cycle_index + 1
            /\ balances_response' = None
            /\ positions_response' = None
                    /\ UNCHANGED <<config, stratVars, now, rmVars, start_time,
                           candidates, idx, cand, buy_counts, summary,
                           metrics, returned, decision, exchVars, histVars>>

NextRefresh ==
    \/ \E response \in BalancesResponses : FetchBalances(response)
    \/ \E response \in PositionsResponses : FetchPositions(response)
    \/ \E response \in OrdersResponses : RefreshReturns(response)
    \/ FetchRaises

SpecRefresh == InitRefresh /\ [][NextRefresh]_vars

-----------------------------------------------------------------------------
(* Properties of the account refresh.                                      *)

\* the step ends a refresh call by its return: the three fetches were made
RefreshReturned == pc' # pc /\ Len(fetch_log') = 3

\* C31: a refresh either returns the AccountState built from one balances
\* fetch, one positions fetch and one orders fetch of that call, made in this
\* order, or raises; the snapshot the scheduler holds changes only when a
\* refresh returns, so after a refresh that raised it is the one held before,
\* and it is never put together from the data of two refresh calls.
C31_StepOfRefresh ==
    IF RefreshReturned
    THEN /\ [i \in 1..3 |-> fetch_log'[i].fetch]
               = <<"balances", "positions", "orders">>
         /\ ~PositionsRaise(fetch_log'[2].response)
         /\ account_state' =
               Some(BuildAccountState(fetch_log'[1].response,
                                      fetch_log'[2].response,
                                      fetch_log'[3].response))
         /\ balances_response' = None
         /\ positions_response' = None
    ELSE /\ account_state' = account_state
         /\ pc' # pc => /\ fetch_log' = <<>>
                        /\ balances_response' = None
                        /\ positions_response' = None
C31_RefreshIsAllOrNothing == [][C31_StepOfRefresh]_vars

\* C31 witness: the refresh of the first cycle raised after the startup
\* refresh had returned a snapshot with a position, an open order dropped for
\* its empty token id, and a balance; the scheduler holds that snapshot.
C31_Witness ==
    /\ pc = "post_refresh"
    /\ cycle_index = 1
    /\ fetch_log = <<>>
    /\ account_state =
          Some(AccountState(USDT(Amt(100)), <<Position(1, "t1", Amt(30))>>,
                            <<OpenOrder(2, "t2", "sell", Amt(57))>>))

-----------------------------------------------------------------------------
(* Properties of the counts of manage.                                     *)

\* the positions of the snapshot whose uncovered shares exceed the threshold
DuePositions ==
    { i \in DOMAIN Positions :
        Diff(The(account_state), Positions[i]) > config.sell_order_threshold }

\* where manage() is under way or has just returned
InManage ==
    {"sell_loop", "sell_fetching", "sell_placing", "sell_committing",
     "manage_returned"}

\* the counts at the return of manage
SummaryAtReturn ==
    pc = "manage_returned" =>
        /\ summary["sell_orders_considered"] = Cardinality(DuePositions)
        /\ summary["sell_orders_considered"] =
              summary["sell_orders_blocked"] + summary["sell_orders_failed"]
              + summary["sell_orders_success"]

\* the success count starts at 0 and moves with the commits of the call
SuccessCountsCommits ==
    /\ pc \notin InManage /\ pc' \in InManage =>
          summary'["sell_orders_success"] = 0
    /\ pc \in InManage /\ pc' \in InManage =>
          summary'["sell_orders_success"] - summary["sell_orders_success"]
             = Len(committed') - Len(committed)

\* C32: when manage returns its summary, sell_orders_considered is the number
\* of positions whose diff exceeded the threshold and is the sum of
\* sell_orders_blocked, sell_orders_failed and sell_orders_success, and
\* sell_orders_success is the number of commits made during the call.
C32_SummaryCountsAddUp == []SummaryAtReturn /\ [][SuccessCountsCommits]_vars

\* C32 witness: manage returned after two positions that were both due; one
\* was sold and one was not, and the one commit of the call follows a commit
\* made before it.
C32_Witness ==
    /\ pc = "manage_returned"
    /\ Cardinality(DuePositions) = 2
    /\ summary["sell_orders_considered"] = 2
    /\ summary["sell_orders_success"] = 1
    /\ Len(committed) = 2

-----------------------------------------------------------------------------
(* Properties of the buy pass.                                             *)

\* where the loop of _process_buy_candidates is under way
InBuyPass == {"buy_loop", "buy_placing", "buy_committing"}

\* the candidates whose attempt has begun
Attempted == IF pc = "buy_loop" THEN idx - 1 ELSE idx

\* a is b with some elements left out
RECURSIVE IsSubsequence(_, _)
IsSubsequence(a, b) ==
    IF a = <<>> THEN TRUE
    ELSE IF b = <<>> THEN FALSE
    ELSE IF Head(a) = Head(b) THEN IsSubsequence(Tail(a), Tail(b))
    ELSE IsSubsequence(a, Tail(b))

\* the candidates are attempted one by one: the attempts ended are counted
\* as a success or a failure, the place_limit_order calls are calls for the
\* candidates attempted, in their order and at most one each, and the counts
\* the pass returns add up
BuyPassCounts ==
    pc \in InBuyPass =>
        /\ buy_counts.success + buy_counts.failures =
              idx - 1
        /\ Attempted <= Len(candidates)
        /\ \A i, j \in DOMAIN candidates : i # j => candidates[i] # candidates[j]
        /\ IsSubsequence([i \in DOMAIN place_calls |-> place_calls[i].candidate],
                         SubSeq(candidates, 1, Attempted))
        /\ buy_counts.success = Len(committed)
        /\ (pc = "buy_loop" /\ idx > Len(candidates)) =>
              BuyMetrics["buy_orders_attempted"] =
                 BuyMetrics["buy_orders_success"] + BuyMetrics["buy_orders_failed"]

\* a step of the buy pass: evaluate is called for the candidate at idx only,
\* and the loop never comes back to a candidate
BuyPassStep ==
    pc \in InBuyPass =>
        /\ EvaluateStep =>
              /\ pc = "buy_loop"
              /\ The(last_eval').candidate = candidates[idx]
              /\ pc' # "buy_loop" \/ idx' = idx + 1
        /\ pc' \in InBuyPass =>
              /\ candidates' = candidates
              /\ idx' \in {idx, idx + 1}
              /\ (pc # "buy_loop" /\ pc' = "buy_loop") => idx' = idx + 1
              /\ (pc = "buy_loop" /\ pc' # "buy_loop") => idx' = idx
        /\ pc' = "mid_refresh" => pc = "buy_loop" /\ idx = Len(candidates) + 1

\* C33: in a buy pass the candidates built are attempted one by one, each
\* with at most one evaluate and at most one place_limit_order call and
\* never again in the cycle; a pass that returns has attempted every
\* candidate exactly once, and the counts it reports satisfy
\* buy_orders_attempted = buy_orders_success + buy_orders_failed.
C33_OneAttemptPerCandidate == []BuyPassCounts /\ [][BuyPassStep]_vars

\* C33 witness: the buy pass of the first cycle has returned after two
\* candidates, the first placed and committed, the placement of the second
\* raised.
C33_Witness ==
    /\ pc = "mid_refresh"
    /\ cycle_index = 1
    /\ Get(metrics, "buy_orders_attempted", 0) = 2
    /\ Get(metrics, "buy_orders_success", 0) = 1
    /\ Get(metrics, "buy_orders_failed", 0) = 1
    /\ Len(place_calls) = 2
    /\ Len(committed) = 1

-----------------------------------------------------------------------------
(* Properties of the metrics of a token.                                   *)

\* the sizes of the best levels a metric has
BestSizes(m) ==
    { The(side).size : side \in {m.best_bid, m.best_ask} \ {None} }

\* C34: the metrics of a token have spread = best ask price - best bid price
\* when both sides exist and no spread when a side is absent, and liquidity
\* the least of the sizes of the best bid and the best ask, which is 0 when
\* both sides are absent.
C34_SpreadAndLiquidity ==
    \A i \in DOMAIN market_metrics :
        LET m == market_metrics[i]
        IN  /\ IF m.best_bid # None /\ m.best_ask # None
               THEN m.spread = Some(PriceUnits(The(m.best_ask).price)
                                    - PriceUnits(The(m.best_bid).price))
               ELSE m.spread = None
            /\ IF BestSizes(m) = {}
               THEN m.liquidity_score = 0
               ELSE /\ m.liquidity_score \in BestSizes(m)
                    /\ \A size \in BestSizes(m) : m.liquidity_score <= size

\* C34 witness: the metrics analysed hold a token with a bid of 20 at 0.40
\* and an ask of 30 at 0.42 (spread 0.02, liquidity 20), a token with a bid
\* only (no spread, liquidity 10) and a token with neither side.
C34_Witness ==
    /\ Len(market_metrics) = 3
    /\ market_metrics[1].best_bid = Level(P040, 20)
    /\ market_metrics[1].best_ask = Level(P042, 30)
    /\ market_metrics[1].spread = Some(2 * (ONE \div 100))
    /\ market_metrics[1].liquidity_score = Amt(20)
    /\ market_metrics[2].best_bid # None
    /\ market_metrics[2].best_ask = None
    /\ market_metrics[2].spread = None
    /\ market_metrics[2].liquidity_score = Amt(10)
    /\ market_metrics[3].best_bid = None
    /\ market_metrics[3].best_ask = None
    /\ market_metrics[3].liquidity_score = 0

-----------------------------------------------------------------------------
(* Properties of the limits under the scheduler.                           *)

\* the quote amounts of the buy candidates in a list, summed
RECURSIVE BuyQuoteSum(_)
BuyQuoteSum(cs) ==
    IF cs = <<>> THEN 0
    ELSE (IF Lower(Head(cs).side) = "buy" THEN Head(cs).quote_amount ELSE 0)
         + BuyQuoteSum(Tail(cs))

\* the state stored by a step is within the three limits for market m
WithinLimitsAfter(m) ==
    /\ available_quote' >= config.min_available_balance
    /\ total_position' <= config.max_total_position
    /\ Get(position_by_market', m, 0) <= config.max_position_per_market

\* the step commits a buy
BuyCommitStep ==
    CommitStep /\ Lower(committed'[Len(committed')].candidate.side) = "buy"

\* the buy orders placed since the reset of the cycle stay within the
\* snapshot's available quote less the reserve
BuysWithinReserve ==
    (pc \in InBuyPass \cup {"mid_refresh"} /\ BuyQuoteSum(placed) > 0) =>
        BuyQuoteSum(placed) <=
            Get(The(account_snapshot).available_balances, "USDT", 0)
            - config.min_available_balance

\* C35: under the scheduler, after every committed buy the available quote
\* is at least min_available_balance, the total position at most
\* max_total_position and the position of the market bought at most
\* max_position_per_market; and the quote amounts of the buy orders placed in
\* one buy pass sum to at most the snapshot's available quote less
\* min_available_balance.
C35_BuysStayWithinLimits ==
    /\ [][BuyCommitStep =>
             WithinLimitsAfter(committed'[Len(committed')].candidate.market_id)]_vars
    /\ []BuysWithinReserve

\* C35 witness: with 30 USDT and a position in market 1, a buy of 20 in
\* market 2 was committed: the available quote is the reserve of 10 exactly.
C35_Witness ==
    /\ pc = "buy_loop"
    /\ last_op = "commit"
    /\ Len(committed) = 1
    /\ committed[1].candidate.side = "buy"
    /\ committed[1].candidate.quote_amount = Amt(20)
    /\ BuyQuoteSum(placed) = Amt(20)
    /\ Get(The(account_snapshot).available_balances, "USDT", 0) = Amt(30)
    /\ available_quote = config.min_available_balance
    /\ available_quote = Amt(10)

-----------------------------------------------------------------------------
(* Properties of the stored positions.                                     *)

\* the entries of a dict, summed
RECURSIVE SumOfEntries(_)
SumOfEntries(d) ==
    IF DOMAIN d = {} THEN 0
    ELSE LET k == CHOOSE x \in DOMAIN d : TRUE
         IN  d[k] + SumOfEntries(Pop(d, k))

\* no position of the snapshot has negative shares
NoNegativeShares ==
    \A i \in DOMAIN The(account_snapshot).positions :
        The(account_snapshot).positions[i].shares >= 0

\* C36: after a reset with a snapshot of non-negative shares, and after
\* commits of decisions of non-negative amounts each made right after its
\* evaluate, the stored total position is the sum of the stored market
\* positions, and the total and every stored market position are not
\* negative.
C36_TotalIsSumOfMarkets ==
    (Ready /\ NoNegativeShares /\ ~stale /\ NoNegativeAmount) =>
        /\ total_position = SumOfEntries(position_by_market)
        /\ total_position >= 0
        /\ \A m \in DOMAIN position_by_market : position_by_market[m] >= 0

\* C36 witness: after a reset with 30 shares in market 1 and 60 in market 2,
\* a sell of 5 in market 2 and a buy of 5 in market 1 were committed, each
\* right after its evaluate: 35 + 55 = 90.
C36_Witness ==
    /\ last_op = "commit"
    /\ ~stale
    /\ Len(committed) = 2
    /\ Lower(committed[1].candidate.side) = "sell"
    /\ Lower(committed[2].candidate.side) = "buy"
    /\ position_by_market = (1 :> Amt(35)) @@ (2 :> Amt(55))
    /\ total_position = Amt(90)

-----------------------------------------------------------------------------
(* Properties of the sell orders of a sell pass.                           *)

\* the base amounts of the sell candidates for market m in a list, summed
RECURSIVE SellBaseSum(_, _)
SellBaseSum(cs, m) ==
    IF cs = <<>> THEN 0
    ELSE (IF Lower(Head(cs).side) = "sell" /\ Head(cs).market_id = m
          THEN Head(cs).base_amount ELSE 0)
         + SellBaseSum(Tail(cs), m)

\* manage runs on the snapshot the RiskManager was reset with, as
\* _manage_sell_orders calls it
InSellPass == pc \in InManage /\ Ready /\ account_state = account_snapshot

\* the sell placed for the position manage is at, with the open sell orders
\* of its market, is within the shares of the position
SellWithinShares ==
    pc \in {"sell_placing", "sell_committing"} =>
        LET account == The(account_state)
            position == account.positions[idx]
            existing == SellRemaining(account.open_orders, position.market_id,
                                      Len(account.open_orders))
        IN  /\ LastOrder.token_id = position.token_id
            /\ The(LastOrder.amount_in_base) + existing <= position.shares
            /\ The(cand).base_amount + existing <= position.shares

\* the sells placed since the reset are within each market's position
SellsWithinMarket ==
    InSellPass =>
        \A m \in MarketIds :
            SellBaseSum(placed, m)
                <= SumSharesOf(The(account_snapshot).positions, m)

\* C37: in a sell pass the base amount of the sell order placed for a
\* position, together with the remaining sizes of the open sell orders of its
\* market, does not exceed the shares of the position, and the sell orders
\* placed for a market sum to at most the market's position in the snapshot.
C37_SellsStayWithinShares == SellWithinShares /\ SellsWithinMarket

\* C37 witness: in a sell pass over two positions of 5 shares in market 1,
\* a sell of 5 was placed for each: 10 in all, the market's position.
C37_Witness ==
    /\ InSellPass
    /\ pc = "sell_committing"
    /\ idx = 2
    /\ Len(placed) = 2
    /\ SellBaseSum(placed, 1) = Amt(10)
    /\ SumSharesOf(The(account_snapshot).positions, 1) = Amt(10)

-----------------------------------------------------------------------------
(* Properties of the frame of commit.                                      *)

\* d and e agree on every key but k: the same keys, the same values
SameButAt(d, e, k) ==
    /\ DOMAIN d \ {k} = DOMAIN e \ {k}
    /\ \A x \in DOMAIN d \ {k} : d[x] = e[x]

\* C38: a commit made directly after its evaluate leaves the snapshot, the
\* position entries of the markets other than the candidate's and the
\* cooldown entries of the keys other than the decision's as they were, and
\* the commit of a sell leaves the available quote as it was.
C38_StepOfFreshCommit ==
    (CommitStep /\ fresh) =>
        LET d == The(decision)
        IN  /\ account_snapshot' = account_snapshot
            /\ SameButAt(position_by_market', position_by_market,
                         d.candidate.market_id)
            /\ SameButAt(last_order_times', last_order_times, d.duplicate_key)
            /\ d.duplicate_key \in DOMAIN last_order_times'
            /\ Lower(d.candidate.side) = "sell" =>
                  available_quote' = available_quote
C38_CommitTouchesItsEntriesOnly == [][C38_StepOfFreshCommit]_vars

\* C38 witness: after a buy in market 1, a sell in market 2 was committed
\* right after its evaluate: the entry of market 1 and the cooldown entry of
\* the buy stand, and the available quote is the one the buy left.
C38_Witness ==
    /\ last_op = "commit"
    /\ ~stale
    /\ Len(committed) = 2
    /\ Lower(committed[1].candidate.side) = "buy"
    /\ committed[1].candidate.market_id = 1
    /\ Lower(committed[2].candidate.side) = "sell"
    /\ committed[2].candidate.market_id = 2
    /\ Get(position_by_market, 1, 0) = committed[1].market_position
    /\ Get(position_by_market, 2, 0) = committed[2].market_position
    /\ committed[1].duplicate_key \in DOMAIN last_order_times
    /\ committed[2].duplicate_key \in DOMAIN last_order_times
    /\ available_quote = committed[1].available_quote
    /\ available_quote < Get(The(account_snapshot).available_balances, "USDT", 0)

====
